---- MODULE Spec2Model ----
(***************************************************************************)
(* A model of the resilience primitives of NO-DOWNTIME:                    *)
(*   - the stampede-protected cache        (src/src/cache.rs)              *)
(*   - the circuit breaker                 (src/src/circuit_breaker.rs)    *)
(*   - the rate limiter                    (src/src/rate_limiter.rs)       *)
(*   - the retry mechanism                 (src/src/retry.rs)              *)
(*                                                                         *)
(* Tasks are tokio tasks running on a multi-threaded runtime: every step   *)
(* that touches shared memory (a lock acquisition, an atomic, a channel    *)
(* operation, a clock read) is one atomic action, and the steps of         *)
(* different tasks interleave freely.  A lock is a variable holding its    *)
(* owner; a critical section that performs several shared operations is    *)
(* split into several actions executed while the lock is held.             *)
(*                                                                         *)
(* Time is a discrete monotonic clock (Instant::now()), Duration values    *)
(* are natural numbers of clock units.                                     *)
(***************************************************************************)
EXTENDS Integers, Sequences, FiniteSets, TLC

VARIABLES
    \* ---- global -------------------------------------------------------
    clock,          \* the monotonic clock read by Instant::now()
    \* ---- Cache<K, V> --------------------------------------------------
    maxEntries,     \* config.max_entries
    probExp,        \* config.probabilistic_expiration
    entries,        \* entries: HashMap<K, CacheEntry<V>> (a function on the keys present)
    entriesLock,    \* owner of the RwLock around entries (0: free)
    channelsLock,   \* owner of the Mutex around load_channels (0: free)
    stats,          \* stats: the packed AtomicU64, as four limbs
    load_channels,  \* load_channels: HashMap<K, Sender>; a sender is named by the task that created it
    \* ---- the tasks using the cache ------------------------------------
    task,           \* per task, the locals of the call it is in (see IdleTask)
    rx,             \* per task, get_or_compute's broadcast receiver (Option)
    sender,         \* per task, TRUE while get_or_compute's local `sender` is alive
    calls,          \* calls started so far
    \* ---- history (not program state) ----------------------------------
    computeCount,   \* per key: invocations of compute by the get_or_compute
                    \* calls that overlap the ones now in progress
    returned,       \* per key: the values those calls have returned
    getsHit,        \* completed get calls that returned a value
    getsMiss,       \* completed get calls that returned absent
    evictsDone,     \* evictions performed by insert
    \* ---- CircuitBreaker -----------------------------------------------
    cbConfig,       \* config: failure_threshold, timeout, success_threshold
    cbState,        \* state: Mutex<CircuitState>
    failure_count,  \* failure_count: AtomicUsize
    success_count,  \* success_count: AtomicUsize
    last_failure,   \* last_failure: Mutex<Option<Instant>>
    cbTask,         \* per task, the locals of the breaker operation it is in
    cbCalls,        \* breaker operations started so far
    \* ---- history (not program state) ----------------------------------
    invoked,        \* invocations of the wrapped operation so far
    streak,         \* failing calls in a row since the breaker was last
                    \* Closed with a clean slate
    halfOpenOks,    \* successful calls completed since the state became
                    \* HalfOpen (0 outside HalfOpen)
    \* ---- RateLimiter --------------------------------------------------
    rlConfig,       \* config: algorithm (with its two parameters), per_client
    token_buckets,  \* token_buckets: HashMap<String, TokenBucket>
    leaky_buckets,  \* leaky_buckets: HashMap<String, LeakyBucket>
    global_bucket,  \* global_bucket: Option<Box<dyn RateLimitingBucket>>
    \* ---- history (not program state) ----------------------------------
    rlCalls,        \* per bucket key: allow calls made on that bucket so far
    rlLast,         \* the last allow call: its client id, the key of the
                    \* bucket it used, its result
    rlAdmits,       \* per bucket key: the times of the admitted calls
    rlCreated,      \* per bucket key: how many buckets were created for it
    rlLock,         \* holder of the mutex of the bucket table in use, 0 if
                    \* free
    rlTask,         \* per thread inside allow: its position, client id,
                    \* key, and whether it found the bucket
    \* ---- RetryMechanism -----------------------------------------------
    rtConfig,       \* config: RetryConfig
    rt,             \* the locals of the retry / retry_with_cancel call
    \* ---- history (not program state) ----------------------------------
    rtLog,          \* what the call has done so far, in order: evaluations
                    \* of cancel, invocations of the operation and their
                    \* outcomes, sleeps
    rtPrev          \* the call made before this one, if any: its function,
                    \* what it did, its result

cacheVars == <<maxEntries, probExp, entries, entriesLock, channelsLock, stats,
               load_channels, task, rx, sender, calls, computeCount, returned, getsHit,
               getsMiss, evictsDone>>

cbVars == <<cbConfig, cbState, failure_count, success_count, last_failure,
            cbTask, cbCalls, invoked, streak, halfOpenOks>>

rlVars == <<rlConfig, token_buckets, leaky_buckets, global_bucket, rlCalls,
            rlLast, rlAdmits, rlCreated, rlLock, rlTask>>

rtVars == <<rtConfig, rt, rtLog, rtPrev>>

\* the variables of the other components
nonCacheVars == <<cbVars, rlVars, rtVars>>

vars == <<clock, cacheVars, nonCacheVars>>

(***************************************************************************)
(* Bounds of the model and constants of the program.                       *)
(***************************************************************************)
Keys == {"k1", "k2"}
Values == {"v1", "v2"}

\* tasks using the cache concurrently
NumTasks == 2
\* calls the tasks may start in total
MaxCalls == 3
\* the clock stops advancing here
MaxTime == 2
\* largest ttl handed to insert or returned by compute
MaxTtl == 2

\* operations the tasks may start on the breaker in total
MaxBreakerOps == 6
\* largest failure_threshold and success_threshold configured
MaxThreshold == 2

\* largest max_attempts configured
MaxAttempts == 3
\* largest initial_delay configured, in milliseconds
MaxInitialDelay == 2
\* largest max_delay configured, in milliseconds
MaxDelayCap == 3
\* largest multiplier configured (whole multipliers only)
MaxMultiplier == 2
\* the jitter fractions configured are the multiples of 1/JitterDen in [0, 1]
JitterDen == 2

\* allow calls made on the rate limiter in total
MaxAllows == 5
\* threads calling allow on one limiter, and the calls they make in all
RlThreads == 3
MaxThreadAllows == 4
\* largest max_tokens and capacity configured
MaxBucket == 2
\* a rate (tokens_per_second, leak_rate) is a number of RateScale-ths of a
\* token per clock unit, at most MaxRate of them; a token bucket's `tokens`
\* is kept as a number of RateScale-ths of a token
RateScale == 2
MaxRate == 2

\* CacheConfig::default().max_entries
DefaultMaxEntries == 1000
\* 0xFFFFF, the mask of one packed statistics field
FieldMask == 1048575
FieldSize == FieldMask + 1

None == <<>>
Some(x) == <<x>>
IsSome(o) == o # <<>>
Unwrap(o) == o[1]

Tasks == DOMAIN task

(***************************************************************************)
(* HashMap operations.                                                     *)
(***************************************************************************)
MapRemove(m, k) == [x \in DOMAIN m \ {k} |-> m[x]]
MapPut(m, k, v) == [x \in DOMAIN m \cup {k} |-> IF x = k THEN v ELSE m[x]]
EmptyMap == [x \in {} |-> 0]
Size(m) == Cardinality(DOMAIN m)

(***************************************************************************)
(* The packed statistics word: bits 0-19 hits, 20-39 misses, 40-59         *)
(* evictions.  The u64 is kept as four limbs <<bits 0-19, bits 20-39,      *)
(* bits 40-59, bits 60-63>>.                                               *)
(***************************************************************************)
ZeroStats == <<0, 0, 0, 0>>

\* current & 0xFFFFF
FieldHits(w) == w[1]
\* (current >> 20) & 0xFFFFF
FieldMisses(w) == w[2]
\* (current >> 40) & 0xFFFFF
FieldEvictions(w) == w[3]

\* x | b for a limb x and a carried bit b in {0, 1}
OrBit(x, b) == IF b = 0 \/ x % 2 = 1 THEN x ELSE x + 1

\* hits | (misses << 20) | (evictions << 40), for fields in 0..2^20
Pack(h, m, e) ==
    << h % FieldSize,
       OrBit(m % FieldSize, h \div FieldSize),
       OrBit(e % FieldSize, m \div FieldSize),
       e \div FieldSize >>

IncHits(w) == Pack(FieldHits(w) + 1, FieldMisses(w), FieldEvictions(w))
IncMisses(w) == Pack(FieldHits(w), FieldMisses(w) + 1, FieldEvictions(w))
IncEvictions(w) == Pack(FieldHits(w), FieldMisses(w), FieldEvictions(w) + 1)

(***************************************************************************)
(* Cache entries.                                                          *)
(***************************************************************************)
Entry(v, t, d) == [value |-> v, expiration |-> t + d, created |-> t]

\* variants of the comparison (not the program's)
IsFreshLate(e, t) == e.expiration > t + 1
IsFreshOrEqual(e, t) == e.expiration >= t

\* entry.expiration > now
IsFresh(e, t) == e.expiration > t

\* rand::random::<f64>() < expiration_probability, evaluated only when
\* probabilistic expiration is on and the entry is fresh: either outcome
EarlyChoices(fresh) == IF probExp /\ fresh THEN BOOLEAN ELSE {FALSE}

\* entries.len() >= max_entries
AtCapacity(m) == Size(m) >= maxEntries

\* iter().min_by_key(created): a key of smallest created. HashMap iteration
\* order is unspecified, so among equal minima any one may be returned.
OldestKeys(m) ==
    {k \in DOMAIN m : \A j \in DOMAIN m : m[k].created <= m[j].created}

\* the eviction insert performs: None, or Some(key to evict)
EvictChoices(m) ==
    IF AtCapacity(m) /\ DOMAIN m # {}
    THEN {Some(k) : k \in OldestKeys(m)}
    ELSE {None}

(***************************************************************************)
(* Locks.                                                                  *)
(***************************************************************************)
\* a variant: the lock is granted while held (not the program's)
EntriesNeverHeld == TRUE

\* self.entries.write() can be granted
EntriesFree == entriesLock = 0

\* self.load_channels.lock() can be granted
ChannelsFree == channelsLock = 0

(***************************************************************************)
(* tokio::sync::broadcast, as used by get_or_compute: one channel per      *)
(* registration, named by the registering task; at most one value is ever  *)
(* sent on it.  A receiver sees only values sent after it subscribed; recv *)
(* returns the value if one is buffered, Err(Closed) once every Sender is  *)
(* dropped, and waits otherwise.                                           *)
(***************************************************************************)
NewReceiver(c) == [src |-> c, buf |-> None, closed |-> FALSE]

\* live Sender handles of channel c: the creator's local and the map's clone
SenderCount(c, lc, snd) ==
    (IF snd[c] THEN 1 ELSE 0) + Cardinality({k \in DOMAIN lc : lc[k] = c})

\* sender.send(v): every open receiver of channel c buffers v
Deliver(r, c, v) ==
    [q \in DOMAIN r |->
        IF IsSome(r[q]) /\ r[q][1].src = c /\ ~r[q][1].closed
        THEN Some([r[q][1] EXCEPT !.buf = Some(v)])
        ELSE r[q]]

\* dropping Sender handles: receivers of channels left without a sender
\* observe the channel closed
CloseDead(r, lc, snd) ==
    [q \in DOMAIN r |->
        IF IsSome(r[q]) /\ SenderCount(r[q][1].src, lc, snd) = 0
        THEN Some([r[q][1] EXCEPT !.closed = TRUE])
        ELSE r[q]]

(***************************************************************************)
(* Cache: the tasks.  A task is idle or inside one call; the locals of a   *)
(* call are dead when it returns.                                          *)
(***************************************************************************)
NoKey == "-"

IdleTask ==
    [pc |-> "idle",         \* position in the call
     op |-> "none",         \* the operation called
     key |-> NoKey,         \* its key argument
     now |-> 0,             \* the local `now`
     found |-> None,        \* get: the entry found under the key
     cur |-> ZeroStats,     \* the local `current`, a loaded copy of stats
     val |-> None,          \* the value to insert / the computed value
     ttl |-> 0,             \* the ttl to insert with
     evicted |-> None,      \* insert: the key it evicted
     ret |-> None,          \* get: the value about to be returned
     subscribed |-> FALSE,  \* history: this call subscribed to a sender
     lateSub |-> FALSE]     \* history: ... after its value was published

\* A task calls an operation; `now` is read where the operation starts
\* with Instant::now().
BeginOp(p, o, k, v, t, next) ==
    /\ task[p].pc = "idle"
    /\ calls < MaxCalls
    /\ calls' = calls + 1
    /\ task' = [task EXCEPT ![p] =
                  [IdleTask EXCEPT !.pc = next, !.op = o, !.key = k,
                                   !.val = v, !.ttl = t,
                                   !.now = IF o \in {"remove", "clear"}
                                           THEN 0 ELSE clock]]
    /\ UNCHANGED <<nonCacheVars, clock, channelsLock, maxEntries, probExp, entries,
                   entriesLock, stats, load_channels, rx, sender,
                   computeCount, returned, getsHit, getsMiss, evictsDone>>

StartGet(p, k) == BeginOp(p, "get", k, None, 0, "get_body")
StartInsert(p, k, v, t) == BeginOp(p, "insert", k, Some(v), t, "insert_body")
StartRemove(p, k) == BeginOp(p, "remove", k, None, 0, "remove_body")
StartClear(p) == BeginOp(p, "clear", NoKey, None, 0, "clear_body")
StartClean(p) == BeginOp(p, "clean_expired", NoKey, None, 0, "clean_body")
StartGoc(p, k) == BeginOp(p, "get_or_compute", k, None, 0, "get_body")

\* another task is inside get_or_compute for key k
OthersOn(p, k) ==
    \E q \in Tasks \ {p} :
        task[q].op = "get_or_compute" /\ task[q].key = k

\* history kept per group of overlapping get_or_compute calls for a key:
\* when task p's call returns v, and when the last call of the group ends
ReturnedAfter(p, v) ==
    LET k == task[p].key IN
    IF task[p].op # "get_or_compute" THEN returned
    ELSE IF OthersOn(p, k) THEN [returned EXCEPT ![k] = @ \cup {v}]
    ELSE [returned EXCEPT ![k] = {}]
CountAfter(p) ==
    LET k == task[p].key IN
    IF task[p].op = "get_or_compute" /\ ~OthersOn(p, k)
    THEN [computeCount EXCEPT ![k] = 0]
    ELSE computeCount

\* get, lines 98-113, 116, 123-130: take the write lock, look the key up,
\* remove an expired (or early-expired) entry, load the statistics word
GetBody(p) ==
    /\ task[p].pc = "get_body"
    /\ EntriesFree
    /\ LET t == task[p]
           k == t.key
           present == k \in DOMAIN entries
           fresh == IF present THEN IsFresh(entries[k], t.now) ELSE FALSE
       IN \E early \in EarlyChoices(fresh) :
            LET hit == fresh /\ ~early IN
            /\ task' = [task EXCEPT ![p] =
                  [t EXCEPT !.pc = "get_store",
                            !.found = IF present THEN Some(entries[k]) ELSE None,
                            !.ret = IF hit THEN Some(entries[k].value) ELSE None,
                            !.cur = stats]]
            /\ entries' = IF hit THEN entries ELSE MapRemove(entries, k)
    /\ entriesLock' = p
    /\ UNCHANGED <<nonCacheVars, clock, channelsLock, maxEntries, probExp, stats,
                   load_channels, rx, sender, calls, computeCount, returned,
                   getsHit, getsMiss, evictsDone>>

\* get, lines 111-112, 120-122, 134-136: store the incremented word and
\* return (the write guard is dropped); get_or_compute, lines 146-148:
\* return the value on a hit, go on otherwise
GetStore(p) ==
    /\ task[p].pc = "get_store"
    /\ LET t == task[p]
           hit == IsSome(t.ret)
       IN /\ stats' = IF hit THEN IncHits(t.cur) ELSE IncMisses(t.cur)
          /\ getsHit' = IF hit THEN getsHit + 1 ELSE getsHit
          /\ getsMiss' = IF hit THEN getsMiss ELSE getsMiss + 1
          /\ IF t.op = "get_or_compute" /\ ~hit
             THEN /\ task' = [task EXCEPT ![p] =
                        [t EXCEPT !.pc = "lookup", !.found = None,
                                  !.cur = ZeroStats]]
                  /\ UNCHANGED <<returned, computeCount>>
             ELSE /\ task' = [task EXCEPT ![p] = IdleTask]
                  /\ returned' = IF hit THEN ReturnedAfter(p, Unwrap(t.ret))
                                 ELSE returned
                  /\ computeCount' = CountAfter(p)
    /\ entriesLock' = 0
    /\ UNCHANGED <<nonCacheVars, clock, channelsLock, maxEntries, probExp, entries,
                   load_channels, rx, sender, calls, evictsDone>>

\* where a task is after its insert: back in get_or_compute, or returned
AfterInsert(t) ==
    IF t.op = "get_or_compute"
    THEN [t EXCEPT !.pc = "send", !.cur = ZeroStats, !.evicted = None]
    ELSE IdleTask

\* insert, lines 202-216 and 223: take the write lock; at capacity remove
\* the oldest entry and load the statistics word, otherwise insert and return
InsertBody(p) ==
    /\ task[p].pc = "insert_body"
    /\ EntriesFree
    /\ LET t == task[p] IN
       \E victim \in EvictChoices(entries) :
         IF IsSome(victim)
         THEN /\ entries' = MapRemove(entries, Unwrap(victim))
              /\ entriesLock' = p
              /\ task' = [task EXCEPT ![p] =
                    [t EXCEPT !.pc = "insert_store", !.evicted = victim,
                              !.cur = stats]]
         ELSE /\ entries' = MapPut(entries, t.key,
                                   Entry(Unwrap(t.val), t.now, t.ttl))
              /\ entriesLock' = 0
              /\ task' = [task EXCEPT ![p] = AfterInsert(t)]
    /\ UNCHANGED <<nonCacheVars, clock, channelsLock, maxEntries, probExp, stats,
                   load_channels, rx, sender, calls, computeCount, returned,
                   getsHit, getsMiss, evictsDone>>

\* insert, lines 217-224: store the incremented evictions, insert, return
InsertStore(p) ==
    /\ task[p].pc = "insert_store"
    /\ LET t == task[p] IN
        /\ stats' = IncEvictions(t.cur)
        /\ entries' = MapPut(entries, t.key, Entry(Unwrap(t.val), t.now, t.ttl))
        /\ task' = [task EXCEPT ![p] = AfterInsert(t)]
    /\ evictsDone' = evictsDone + 1
    /\ entriesLock' = 0
    /\ UNCHANGED <<nonCacheVars, clock, channelsLock, maxEntries, probExp, load_channels,
                   rx, sender, calls, computeCount, returned, getsHit,
                   getsMiss>>

\* remove, lines 227-230
RemoveBody(p) ==
    /\ task[p].pc = "remove_body"
    /\ EntriesFree
    /\ entries' = MapRemove(entries, task[p].key)
    /\ task' = [task EXCEPT ![p] = IdleTask]
    /\ UNCHANGED <<nonCacheVars, clock, channelsLock, maxEntries, probExp, entriesLock,
                   stats, load_channels, rx, sender, calls, computeCount,
                   returned, getsHit, getsMiss, evictsDone>>

\* clear, lines 233-236
ClearBody(p) ==
    /\ task[p].pc = "clear_body"
    /\ EntriesFree
    /\ entries' = EmptyMap
    /\ task' = [task EXCEPT ![p] = IdleTask]
    /\ UNCHANGED <<nonCacheVars, clock, channelsLock, maxEntries, probExp, entriesLock,
                   stats, load_channels, rx, sender, calls, computeCount,
                   returned, getsHit, getsMiss, evictsDone>>

\* clean_expired, lines 257-259
CleanBody(p) ==
    /\ task[p].pc = "clean_body"
    /\ EntriesFree
    /\ entries' = [k \in {j \in DOMAIN entries :
                            IsFresh(entries[j], task[p].now)} |-> entries[k]]
    /\ task' = [task EXCEPT ![p] = IdleTask]
    /\ UNCHANGED <<nonCacheVars, clock, channelsLock, maxEntries, probExp, entriesLock,
                   stats, load_channels, rx, sender, calls, computeCount,
                   returned, getsHit, getsMiss, evictsDone>>

(***************************************************************************)
(* get_or_compute, lines 140-189.  Its get and its insert are the actions  *)
(* above; the rest follows.  Each critical section on load_channels        *)
(* performs one map operation, so lock, operation and unlock are one step: *)
(* the step needs the lock free and leaves it free.                        *)
(***************************************************************************)
\* a variant: the guard is still held while the subscriber waits (not the
\* program's)
GocLookupKeepsLock(p) ==
    /\ task[p].pc = "lookup"
    /\ ChannelsFree
    /\ LET t == task[p] IN
       IF t.key \in DOMAIN load_channels
       THEN LET c == load_channels[t.key] IN
            /\ rx' = [rx EXCEPT ![p] = Some(NewReceiver(c))]
            /\ task' = [task EXCEPT ![p] =
                  [t EXCEPT !.pc = "recv", !.subscribed = TRUE,
                            !.lateSub = (task[c].pc = "dereg")]]
       ELSE /\ task' = [task EXCEPT ![p] = [t EXCEPT !.pc = "register"]]
            /\ rx' = rx
    /\ channelsLock' = IF task[p].key \in DOMAIN load_channels THEN p ELSE 0
    /\ UNCHANGED <<nonCacheVars, clock, maxEntries, probExp, entries,
                   entriesLock, stats, load_channels, sender, calls,
                   computeCount, returned, getsHit, getsMiss, evictsDone>>

\* lines 152-156 and 163: under the lock, a sender is registered for the
\* key: subscribe to it and drop the guard; none is: the guard is dropped at
\* the end of the block, go on to compute
GocLookup(p) ==
    /\ task[p].pc = "lookup"
    /\ ChannelsFree
    /\ LET t == task[p] IN
       IF t.key \in DOMAIN load_channels
       THEN LET c == load_channels[t.key] IN
            /\ rx' = [rx EXCEPT ![p] = Some(NewReceiver(c))]
            /\ task' = [task EXCEPT ![p] =
                  [t EXCEPT !.pc = "recv", !.subscribed = TRUE,
                            !.lateSub = (task[c].pc = "dereg")]]
       ELSE /\ task' = [task EXCEPT ![p] = [t EXCEPT !.pc = "register"]]
            /\ rx' = rx
    /\ channelsLock' = 0
    /\ UNCHANGED <<nonCacheVars, clock, maxEntries, probExp, entries,
                   entriesLock, stats, load_channels, sender, calls,
                   computeCount, returned, getsHit, getsMiss, evictsDone>>

\* lines 159-162: receiver.recv().await completes, with the value (return
\* it) or with an error (fall through to line 165); the receiver is dropped
GocRecv(p) ==
    /\ task[p].pc = "recv"
    /\ LET t == task[p]
           r == Unwrap(rx[p])
       IN /\ IsSome(r.buf) \/ r.closed
          /\ IF IsSome(r.buf)
             THEN /\ task' = [task EXCEPT ![p] = IdleTask]
                  /\ returned' = ReturnedAfter(p, Unwrap(r.buf))
                  /\ computeCount' = CountAfter(p)
             ELSE /\ task' = [task EXCEPT ![p] = [t EXCEPT !.pc = "register"]]
                  /\ UNCHANGED <<returned, computeCount>>
    /\ rx' = [rx EXCEPT ![p] = None]
    /\ UNCHANGED <<nonCacheVars, clock, channelsLock, maxEntries, probExp, entries,
                   entriesLock, stats, load_channels, sender, calls, getsHit,
                   getsMiss, evictsDone>>

\* lines 167-174: create the channel; under the lock insert a clone of the
\* sender under the key (a sender already there is replaced and dropped);
\* call compute
GocRegister(p) ==
    /\ task[p].pc = "register"
    /\ ChannelsFree
    /\ LET t == task[p] IN
        /\ sender' = [sender EXCEPT ![p] = TRUE]
        /\ load_channels' = MapPut(load_channels, t.key, p)
        /\ rx' = CloseDead(rx, load_channels', sender')
        /\ computeCount' = [computeCount EXCEPT ![t.key] = @ + 1]
        /\ task' = [task EXCEPT ![p] = [t EXCEPT !.pc = "compute"]]
    /\ channelsLock' = 0
    /\ UNCHANGED <<nonCacheVars, clock, maxEntries, probExp, entries,
                   entriesLock, stats, calls, returned, getsHit, getsMiss,
                   evictsDone>>

\* lines 174, 177 and 193-200: compute returns (value, ttl), insert is
\* called and reads the clock
GocCompute(p, ttls) ==
    /\ task[p].pc = "compute"
    /\ \E v \in Values, d \in ttls :
        task' = [task EXCEPT ![p] =
                    [task[p] EXCEPT !.pc = "insert_body", !.val = Some(v),
                                    !.ttl = d, !.now = clock]]
    /\ UNCHANGED <<nonCacheVars, clock, channelsLock, maxEntries, probExp, entries,
                   entriesLock, stats, load_channels, rx, sender, calls,
                   computeCount, returned, getsHit, getsMiss, evictsDone>>

\* line 180: sender.send(value)
GocSend(p) ==
    /\ task[p].pc = "send"
    /\ rx' = Deliver(rx, p, Unwrap(task[p].val))
    /\ task' = [task EXCEPT ![p] = [task[p] EXCEPT !.pc = "dereg"]]
    /\ UNCHANGED <<nonCacheVars, clock, channelsLock, maxEntries, probExp, entries,
                   entriesLock, stats, load_channels, sender, calls,
                   computeCount, returned, getsHit, getsMiss, evictsDone>>

\* a variant: the marker is left in the table (not the program's)
GocDeregKeepsMarker(p) ==
    /\ task[p].pc = "dereg"
    /\ ChannelsFree
    /\ task' = [task EXCEPT ![p] = [task[p] EXCEPT !.pc = "return"]]
    /\ channelsLock' = 0
    /\ UNCHANGED <<nonCacheVars, clock, maxEntries, probExp, entries,
                   entriesLock, stats, load_channels, rx, sender, calls,
                   computeCount, returned, getsHit, getsMiss, evictsDone>>

\* lines 184-186: under the lock remove whatever sender is under the key
\* (it is dropped)
GocDereg(p) ==
    /\ task[p].pc = "dereg"
    /\ ChannelsFree
    /\ load_channels' = MapRemove(load_channels, task[p].key)
    /\ rx' = CloseDead(rx, load_channels', sender)
    /\ task' = [task EXCEPT ![p] = [task[p] EXCEPT !.pc = "return"]]
    /\ channelsLock' = 0
    /\ UNCHANGED <<nonCacheVars, clock, maxEntries, probExp, entries,
                   entriesLock, stats, sender, calls, computeCount, returned,
                   getsHit, getsMiss, evictsDone>>

\* a variant: the returning call's sender stays alive (not the program's)
GocReturnKeepsSender(p) ==
    /\ task[p].pc = "return"
    /\ returned' = ReturnedAfter(p, Unwrap(task[p].val))
    /\ computeCount' = CountAfter(p)
    /\ task' = [task EXCEPT ![p] = IdleTask]
    /\ UNCHANGED <<nonCacheVars, clock, channelsLock, maxEntries, probExp, entries,
                   entriesLock, stats, load_channels, rx, sender, calls,
                   getsHit, getsMiss, evictsDone>>

\* lines 188-189: return value; the local sender is dropped
GocReturn(p) ==
    /\ task[p].pc = "return"
    /\ sender' = [sender EXCEPT ![p] = FALSE]
    /\ rx' = CloseDead(rx, load_channels, sender')
    /\ returned' = ReturnedAfter(p, Unwrap(task[p].val))
    /\ computeCount' = CountAfter(p)
    /\ task' = [task EXCEPT ![p] = IdleTask]
    /\ UNCHANGED <<nonCacheVars, clock, channelsLock, maxEntries, probExp, entries,
                   entriesLock, stats, load_channels, calls, getsHit,
                   getsMiss, evictsDone>>

\* time passes
Tick ==
    /\ clock < MaxTime
    /\ clock' = clock + 1
    /\ UNCHANGED <<cacheVars, nonCacheVars>>

(***************************************************************************)
(* Initial states.                                                         *)
(***************************************************************************)
\* a cache used by n tasks, no call in progress, no entry stored, the
\* statistics word being one of `words`
InitCacheWith(n, maxes, probs, words) ==
    /\ maxEntries \in maxes
    /\ probExp \in probs
    /\ entries = EmptyMap
    /\ entriesLock = 0
    /\ channelsLock = 0
    /\ stats \in words
    /\ load_channels = EmptyMap
    /\ task = [p \in 1..n |-> IdleTask]
    /\ rx = [p \in 1..n |-> None]
    /\ sender = [p \in 1..n |-> FALSE]
    /\ calls = 0
    /\ computeCount = [k \in Keys |-> 0]
    /\ returned = [k \in Keys |-> {}]
    /\ getsHit = 0
    /\ getsMiss = 0
    /\ evictsDone = 0

\* Cache::with_config(config), lines 85-92, used by n tasks
InitCache(n, maxes, probs) == InitCacheWith(n, maxes, probs, {ZeroStats})

(***************************************************************************)
(* CircuitBreaker.  A critical section on `state` is one step: inside it   *)
(* the program touches each atomic at most once, and last_failure only     *)
(* with `state` held or, in check_timeout, alone.                          *)
(***************************************************************************)
\* a task outside any breaker operation; r is the result of its last call
BreakerIdle(r) ==
    [pc |-> "idle",
     fc |-> 0,          \* on_error: the local failure_count
     lf |-> 0,          \* check_timeout: the local last_failure
     result |-> r]      \* history: "none", "OpenCircuit", "Ok" or "Inner"

BreakerTasks == DOMAIN cbTask

\* a task starts an operation on the breaker
BreakerBegin(c) ==
    /\ cbTask[c].pc = "idle"
    /\ cbCalls < MaxBreakerOps
    /\ cbCalls' = cbCalls + 1

\* a variant of the comparison (not the program's)
ReachedThresholdStrict(n) == n > cbConfig.failure_threshold

\* failure_count >= self.config.failure_threshold
ReachedThreshold(n) == n >= cbConfig.failure_threshold

\* a task calls call(f), line 76
CallStart(c) ==
    /\ BreakerBegin(c)
    /\ cbTask' = [cbTask EXCEPT ![c] =
                    [BreakerIdle("none") EXCEPT !.pc = "call_state"]]
    /\ UNCHANGED <<clock, cacheVars, rlVars, rtVars, cbConfig, cbState, failure_count,
                   success_count, last_failure, invoked, streak, halfOpenOks>>

\* a variant: the operation is invoked whatever the state (not the
\* program's)
CallStateInvokesAnyway(c) ==
    /\ cbTask[c].pc = "call_state"
    /\ cbTask' = [cbTask EXCEPT ![c] = [cbTask[c] EXCEPT !.pc = "running"]]
    /\ invoked' = invoked + 1
    /\ UNCHANGED <<clock, cacheVars, rlVars, rtVars, cbConfig, cbState, failure_count,
                   success_count, last_failure, cbCalls, streak, halfOpenOks>>

\* call, lines 82-96: match self.state(); Open: return OpenCircuit;
\* otherwise invoke f
CallState(c) ==
    /\ cbTask[c].pc = "call_state"
    /\ IF cbState = "Open"
       THEN /\ cbTask' = [cbTask EXCEPT ![c] = BreakerIdle("OpenCircuit")]
            /\ invoked' = invoked
       ELSE /\ cbTask' = [cbTask EXCEPT ![c] =
                            [cbTask[c] EXCEPT !.pc = "running"]]
            /\ invoked' = invoked + 1
    /\ UNCHANGED <<clock, cacheVars, rlVars, rtVars, cbConfig, cbState, failure_count,
                   success_count, last_failure, cbCalls, streak, halfOpenOks>>

\* a variant: a success in Closed leaves failure_count as it is (not the
\* program's)
OnSuccessKeepsFailures(c) ==
    /\ cbTask[c].pc = "running"
    /\ IF cbState = "HalfOpen"
       THEN IF success_count + 1 >= cbConfig.success_threshold
            THEN /\ cbState' = "Closed"
                 /\ failure_count' = 0
                 /\ success_count' = 0
            ELSE /\ success_count' = success_count + 1
                 /\ UNCHANGED <<cbState, failure_count>>
       ELSE UNCHANGED <<cbState, failure_count, success_count>>
    /\ cbTask' = [cbTask EXCEPT ![c] = BreakerIdle("Ok")]
    /\ streak' = 0
    /\ halfOpenOks' = IF cbState = "HalfOpen" /\ cbState' = "HalfOpen"
                      THEN halfOpenOks + 1 ELSE 0
    /\ UNCHANGED <<clock, cacheVars, rlVars, rtVars, cbConfig, last_failure, cbCalls, invoked>>

\* a variant: a success closes the circuit from Open as well (not the
\* program's)
OnSuccessClosesOpen(c) ==
    /\ cbTask[c].pc = "running"
    /\ IF cbState = "Closed"
       THEN /\ failure_count' = 0
            /\ UNCHANGED <<cbState, success_count>>
       ELSE IF success_count + 1 >= cbConfig.success_threshold
            THEN /\ cbState' = "Closed"
                 /\ failure_count' = 0
                 /\ success_count' = 0
            ELSE /\ success_count' = success_count + 1
                 /\ UNCHANGED <<cbState, failure_count>>
    /\ cbTask' = [cbTask EXCEPT ![c] = BreakerIdle("Ok")]
    /\ streak' = 0
    /\ halfOpenOks' = IF cbState = "HalfOpen" /\ cbState' = "HalfOpen"
                      THEN halfOpenOks + 1 ELSE 0
    /\ UNCHANGED <<clock, cacheVars, rlVars, rtVars, cbConfig, last_failure, cbCalls, invoked>>

\* call, lines 99-103, and on_success, lines 117-140: f returned Ok
OnSuccess(c) ==
    /\ cbTask[c].pc = "running"
    /\ IF cbState = "Closed"
       THEN /\ failure_count' = 0
            /\ UNCHANGED <<cbState, success_count>>
       ELSE IF cbState = "HalfOpen"
       THEN IF success_count + 1 >= cbConfig.success_threshold
            THEN /\ cbState' = "Closed"
                 /\ failure_count' = 0
                 /\ success_count' = 0
            ELSE /\ success_count' = success_count + 1
                 /\ UNCHANGED <<cbState, failure_count>>
       ELSE UNCHANGED <<cbState, failure_count, success_count>>
    /\ cbTask' = [cbTask EXCEPT ![c] = BreakerIdle("Ok")]
    /\ streak' = 0
    /\ UNCHANGED <<clock, cacheVars, rlVars, rtVars, cbConfig, last_failure, cbCalls, invoked>>
    /\ halfOpenOks' = IF cbState = "HalfOpen" /\ cbState' = "HalfOpen"
                      THEN halfOpenOks + 1 ELSE 0

\* call, line 104, and on_error, line 145: f returned Err; fetch_add
OnErrorAdd(c) ==
    /\ cbTask[c].pc = "running"
    /\ failure_count' = failure_count + 1
    /\ cbTask' = [cbTask EXCEPT ![c] =
                    [cbTask[c] EXCEPT !.pc = "on_error", !.fc = failure_count + 1]]
    /\ UNCHANGED <<clock, cacheVars, rlVars, rtVars, cbConfig, cbState, success_count,
                   last_failure, cbCalls, invoked, streak, halfOpenOks>>

\* a variant: a failure in HalfOpen reopens without recording its time or
\* resetting success_count (not the program's)
OnErrorLockKeepsRecord(c) ==
    /\ cbTask[c].pc = "on_error"
    /\ IF cbState = "Closed" /\ ReachedThreshold(cbTask[c].fc)
       THEN cbState' = "Open" /\ last_failure' = Some(clock)
       ELSE IF cbState = "HalfOpen"
       THEN cbState' = "Open" /\ last_failure' = last_failure
       ELSE UNCHANGED <<cbState, last_failure>>
    /\ cbTask' = [cbTask EXCEPT ![c] = BreakerIdle("Inner")]
    /\ streak' = streak + 1
    /\ halfOpenOks' = IF cbState' = "HalfOpen" THEN halfOpenOks ELSE 0
    /\ UNCHANGED <<clock, cacheVars, rlVars, rtVars, cbConfig, failure_count, success_count,
                   cbCalls, invoked>>

\* on_error, lines 147-168, and call, line 105: under the lock
OnErrorLock(c) ==
    /\ cbTask[c].pc = "on_error"
    /\ IF cbState = "Closed"
       THEN IF ReachedThreshold(cbTask[c].fc)
            THEN /\ cbState' = "Open"
                 /\ last_failure' = Some(clock)
                 /\ UNCHANGED success_count
            ELSE UNCHANGED <<cbState, last_failure, success_count>>
       ELSE IF cbState = "HalfOpen"
       THEN /\ cbState' = "Open"
            /\ last_failure' = Some(clock)
            /\ success_count' = 0
       ELSE UNCHANGED <<cbState, last_failure, success_count>>
    /\ cbTask' = [cbTask EXCEPT ![c] = BreakerIdle("Inner")]
    /\ streak' = streak + 1
    /\ UNCHANGED <<clock, cacheVars, rlVars, rtVars, cbConfig, failure_count, cbCalls, invoked>>
    /\ halfOpenOks' = IF cbState' = "HalfOpen" THEN halfOpenOks ELSE 0

\* check_timeout, lines 172-174: read the state
CheckTimeoutState(c) ==
    /\ BreakerBegin(c)
    /\ cbTask' = [cbTask EXCEPT ![c] =
                    IF cbState = "Open"
                    THEN [cbTask[c] EXCEPT !.pc = "ct_last"]
                    ELSE cbTask[c]]
    /\ UNCHANGED <<clock, cacheVars, rlVars, rtVars, cbConfig, cbState, failure_count,
                   success_count, last_failure, invoked, streak, halfOpenOks>>

\* check_timeout, lines 175-177: read last_failure
CheckTimeoutLast(c) ==
    /\ cbTask[c].pc = "ct_last"
    /\ cbTask' = [cbTask EXCEPT ![c] =
                    IF IsSome(last_failure)
                    THEN [cbTask[c] EXCEPT !.pc = "ct_elapsed",
                                           !.lf = Unwrap(last_failure)]
                    ELSE BreakerIdle(cbTask[c].result)]
    /\ UNCHANGED <<clock, cacheVars, rlVars, rtVars, cbConfig, cbState, failure_count,
                   success_count, last_failure, cbCalls, invoked, streak, halfOpenOks>>

\* a variant: the elapsed time is not compared (not the program's)
CheckTimeoutElapsedAlways(c) ==
    /\ cbTask[c].pc = "ct_elapsed"
    /\ cbTask' = [cbTask EXCEPT ![c] =
                    [cbTask[c] EXCEPT !.pc = "ct_lock", !.lf = 0]]
    /\ UNCHANGED <<clock, cacheVars, rlVars, rtVars, cbConfig, cbState, failure_count,
                   success_count, last_failure, cbCalls, invoked, streak,
                   halfOpenOks>>

\* check_timeout, line 178: last_failure.elapsed() >= self.config.timeout
CheckTimeoutElapsed(c) ==
    /\ cbTask[c].pc = "ct_elapsed"
    /\ cbTask' = [cbTask EXCEPT ![c] =
                    IF clock - cbTask[c].lf >= cbConfig.timeout
                    THEN [cbTask[c] EXCEPT !.pc = "ct_lock", !.lf = 0]
                    ELSE BreakerIdle(cbTask[c].result)]
    /\ UNCHANGED <<clock, cacheVars, rlVars, rtVars, cbConfig, cbState, failure_count,
                   success_count, last_failure, cbCalls, invoked, streak, halfOpenOks>>

\* a variant: success_count is not reset on entering HalfOpen (not the
\* program's)
CheckTimeoutLockKeepsCount(c) ==
    /\ cbTask[c].pc = "ct_lock"
    /\ cbState' = IF cbState = "Open" THEN "HalfOpen" ELSE cbState
    /\ cbTask' = [cbTask EXCEPT ![c] = BreakerIdle(cbTask[c].result)]
    /\ halfOpenOks' = IF cbState = "Open" THEN 0 ELSE halfOpenOks
    /\ UNCHANGED <<clock, cacheVars, rlVars, rtVars, cbConfig, failure_count, success_count,
                   last_failure, cbCalls, invoked, streak>>

\* check_timeout, lines 180-184: under the lock, Open becomes HalfOpen
CheckTimeoutLock(c) ==
    /\ cbTask[c].pc = "ct_lock"
    /\ IF cbState = "Open"
       THEN cbState' = "HalfOpen" /\ success_count' = 0
       ELSE UNCHANGED <<cbState, success_count>>
    /\ cbTask' = [cbTask EXCEPT ![c] = BreakerIdle(cbTask[c].result)]
    /\ UNCHANGED <<clock, cacheVars, rlVars, rtVars, cbConfig, failure_count, last_failure,
                   cbCalls, invoked, streak>>
    /\ halfOpenOks' = IF cbState = "Open" THEN 0 ELSE halfOpenOks

\* force_open, lines 191-195
ForceOpen(c) ==
    /\ BreakerBegin(c)
    /\ cbState' = "Open"
    /\ last_failure' = Some(clock)
    /\ UNCHANGED <<clock, cacheVars, rlVars, rtVars, cbConfig, failure_count, success_count,
                   cbTask, invoked, streak>>
    /\ halfOpenOks' = 0

\* force_close, lines 198-204
ForceClose(c) ==
    /\ BreakerBegin(c)
    /\ cbState' = "Closed"
    /\ failure_count' = 0
    /\ success_count' = 0
    /\ last_failure' = None
    /\ streak' = 0
    /\ UNCHANGED <<clock, cacheVars, rlVars, rtVars, cbConfig, cbTask, invoked>>
    /\ halfOpenOks' = 0

\* CircuitBreaker::with_config(config), lines 66-74, used by n tasks
InitBreaker(n, configs) ==
    /\ cbConfig \in configs
    /\ cbState = "Closed"
    /\ failure_count = 0
    /\ success_count = 0
    /\ last_failure = None
    /\ cbTask = [c \in 1..n |-> BreakerIdle("none")]
    /\ cbCalls = 0
    /\ invoked = 0
    /\ streak = 0
    /\ halfOpenOks = 0

\* CircuitBreakerConfig::default(), lines 34-40, in clock units
DefaultBreakerConfig ==
    [failure_threshold |-> 5, timeout |-> 60, success_threshold |-> 1]

\* the configurations explored
BreakerConfigs ==
    [failure_threshold : 0..MaxThreshold,
     timeout : 1..MaxTime,
     success_threshold : 1..MaxThreshold]

(***************************************************************************)
(* RateLimiter.  allow holds one lock from its lookup to its result and    *)
(* does not suspend: it is one step.                                       *)
(***************************************************************************)
Min(a, b) == IF a <= b THEN a ELSE b

\* TokenBucket::new, lines 65-72
TokenBucketNew(max_tokens, tokens_per_second, now) ==
    [max_tokens |-> max_tokens,
     tokens |-> max_tokens * RateScale,
     tokens_per_second |-> tokens_per_second,
     last_update |-> now]

\* a variant: a token is granted only if more than one is there (not the
\* program's)
TokenBucketAllowStrict(b, now) ==
    LET elapsed == now - b.last_update
        filled == Min(b.tokens + elapsed * b.tokens_per_second,
                      b.max_tokens * RateScale)
        ok == filled > RateScale
    IN [bucket |-> [b EXCEPT !.tokens = IF ok THEN filled - RateScale
                                          ELSE filled,
                             !.last_update = now],
        ok |-> ok]

\* a variant: a rejected call is charged a token as well (not the
\* program's)
TokenBucketAllowChargesRejected(b, now) ==
    LET elapsed == now - b.last_update
        filled == Min(b.tokens + elapsed * b.tokens_per_second,
                      b.max_tokens * RateScale)
        ok == filled >= RateScale
    IN [bucket |-> [b EXCEPT !.tokens = filled - RateScale,
                             !.last_update = now],
        ok |-> ok]

\* a variant: the refill is not capped at max_tokens (not the program's)
TokenBucketAllowNoCap(b, now) ==
    LET elapsed == now - b.last_update
        filled == b.tokens + elapsed * b.tokens_per_second
        ok == filled >= RateScale
    IN [bucket |-> [b EXCEPT !.tokens = IF ok THEN filled - RateScale
                                          ELSE filled,
                             !.last_update = now],
        ok |-> ok]

\* TokenBucket::allow, lines 75-90: the bucket after the call and the result
TokenBucketAllow(b, now) ==
    LET elapsed == now - b.last_update
        filled == Min(b.tokens + elapsed * b.tokens_per_second,
                      b.max_tokens * RateScale)
        ok == filled >= RateScale
    IN [bucket |-> [b EXCEPT !.tokens = IF ok THEN filled - RateScale
                                          ELSE filled,
                             !.last_update = now],
        ok |-> ok]

\* LeakyBucket::new, lines 108-115
LeakyBucketNew(capacity, leak_rate, now) ==
    [capacity |-> capacity,
     requests |-> 0,
     leak_rate |-> leak_rate,
     last_update |-> now]

\* a variant: a request is taken while requests <= capacity (not the
\* program's)
LeakyBucketAllowOneMore(b, now) ==
    LET elapsed == now - b.last_update
        leaked == (elapsed * b.leak_rate) \div RateScale
        left == IF leaked >= b.requests THEN 0 ELSE b.requests - leaked
        ok == left <= b.capacity
    IN [bucket |-> [b EXCEPT !.requests = IF ok THEN left + 1 ELSE left,
                             !.last_update = now],
        ok |-> ok]

\* LeakyBucket::allow, lines 118-134: the bucket after the call and the
\* result; `as u32` truncates, saturating_sub stops at 0
LeakyBucketAllow(b, now) ==
    LET elapsed == now - b.last_update
        leaked == (elapsed * b.leak_rate) \div RateScale
        left == IF leaked >= b.requests THEN 0 ELSE b.requests - leaked
        ok == left < b.capacity
    IN [bucket |-> [b EXCEPT !.requests = IF ok THEN left + 1 ELSE left,
                             !.last_update = now],
        ok |-> ok]

\* client ids handed to allow: Option<&str>
ClientIds == {None, Some("a"), Some("b")}

\* a variant: every client id names the same bucket (not the program's)
ClientKeyShared(cid) == "global"

\* client_id.unwrap_or("global"), line 167
ClientKey(cid) == IF IsSome(cid) THEN Unwrap(cid) ELSE "global"

\* the keys of buckets: the default key of line 167 and the client ids
BucketKeys == {"global"} \cup {Unwrap(cid) : cid \in ClientIds \ {None}}

\* the bucket allow creates on first use, by the configured algorithm
BucketNew(now) ==
    IF rlConfig.algorithm = "TokenBucket"
    THEN TokenBucketNew(rlConfig.max, rlConfig.rate, now)
    ELSE LeakyBucketNew(rlConfig.max, rlConfig.rate, now)

\* bucket.allow(), dispatched on the bucket's type
BucketAllow(b, now) ==
    IF rlConfig.algorithm = "TokenBucket"
    THEN TokenBucketAllow(b, now)
    ELSE LeakyBucketAllow(b, now)

\* the per-client table of the configured algorithm
ClientBuckets ==
    IF rlConfig.algorithm = "TokenBucket" THEN token_buckets
    ELSE leaky_buckets

\* the bucket allow uses for key k, if it exists, among the per-client
\* buckets cb and the global bucket gb
BucketAmong(cb, gb, k) ==
    IF rlConfig.per_client
    THEN IF k \in DOMAIN cb THEN Some(cb[k]) ELSE None
    ELSE IF k = "global" THEN gb ELSE None

BucketOf(k) == BucketAmong(ClientBuckets, global_bucket, k)

\* the same after the step
BucketOfNext(k) == BucketAmong(ClientBuckets', global_bucket', k)

\* RateLimiter::allow, lines 166-209: the effect of the call on the
\* limiter, and its result (in rlLast)
AllowUpdate(cid) ==
    IF rlConfig.per_client
    THEN LET k == ClientKey(cid)
             b == IF k \in DOMAIN ClientBuckets
                  THEN ClientBuckets[k] ELSE BucketNew(clock)
             r == BucketAllow(b, clock)
         IN /\ IF rlConfig.algorithm = "TokenBucket"
               THEN /\ token_buckets' = MapPut(token_buckets, k, r.bucket)
                    /\ UNCHANGED leaky_buckets
               ELSE /\ leaky_buckets' = MapPut(leaky_buckets, k, r.bucket)
                    /\ UNCHANGED token_buckets
            /\ UNCHANGED global_bucket
            /\ rlLast' = [cid |-> cid, key |-> k, ok |-> r.ok]
    ELSE LET b == IF IsSome(global_bucket)
                  THEN Unwrap(global_bucket) ELSE BucketNew(clock)
             r == BucketAllow(b, clock)
         IN /\ global_bucket' = Some(r.bucket)
            /\ UNCHANGED <<token_buckets, leaky_buckets>>
            /\ rlLast' = [cid |-> cid, key |-> "global", ok |-> r.ok]

\* a caller calls allow(client_id)
Allow(cid) ==
    /\ rlCalls["global"] + rlCalls["a"] + rlCalls["b"] < MaxAllows
    /\ AllowUpdate(cid)
    /\ rlCalls' = [rlCalls EXCEPT ![rlLast'.key] = @ + 1]
    /\ rlAdmits' = IF rlLast'.ok
                   THEN [rlAdmits EXCEPT ![rlLast'.key] = Append(@, clock)]
                   ELSE rlAdmits
    /\ rlCreated' = IF IsSome(BucketOf(rlLast'.key)) THEN rlCreated
                    ELSE [rlCreated EXCEPT ![rlLast'.key] = @ + 1]
    /\ UNCHANGED <<clock, cacheVars, cbVars, rtVars, rlConfig, rlLock,
                   rlTask>>

\* allow run by threads: the thread's locals
RlIdle == [pc |-> "idle", cid |-> None, key |-> "global", found |-> FALSE]

\* a variant: the mutex never blocks (not the program's)
RlNeverHeld == TRUE

\* the mutex of the bucket table in use can be taken
RlFree == rlLock = 0

\* thread t calls allow(cid); line 167: client_id.unwrap_or("global")
AllowCall(t, cid) ==
    /\ rlTask[t].pc = "idle"
    /\ rlCalls["global"] + rlCalls["a"] + rlCalls["b"]
         + Cardinality({u \in DOMAIN rlTask : rlTask[u].pc # "idle"})
           < MaxThreadAllows
    /\ rlTask' = [rlTask EXCEPT ![t] =
                     [pc |-> "lock", cid |-> cid,
                      key |-> IF rlConfig.per_client THEN ClientKey(cid)
                              ELSE "global",
                      found |-> FALSE]]
    /\ UNCHANGED <<clock, cacheVars, cbVars, rtVars, rlConfig,
                   token_buckets, leaky_buckets, global_bucket, rlCalls,
                   rlLast, rlAdmits, rlCreated, rlLock>>

\* lines 172, 178, 190, 196: .lock().unwrap()
AllowLock(t) ==
    /\ rlTask[t].pc = "lock"
    /\ RlFree
    /\ rlLock' = t
    /\ rlTask' = [rlTask EXCEPT ![t].pc = "lookup"]
    /\ UNCHANGED <<clock, cacheVars, cbVars, rtVars, rlConfig,
                   token_buckets, leaky_buckets, global_bucket, rlCalls,
                   rlLast, rlAdmits, rlCreated>>

\* lines 173, 179, 191, 197: buckets.entry(key) / global_bucket.is_none()
AllowLookup(t) ==
    /\ rlTask[t].pc = "lookup"
    /\ rlTask' = [rlTask EXCEPT ![t].pc = "insert",
                                ![t].found = IsSome(BucketOf(rlTask[t].key))]
    /\ UNCHANGED <<clock, cacheVars, cbVars, rtVars, rlConfig,
                   token_buckets, leaky_buckets, global_bucket, rlCalls,
                   rlLast, rlAdmits, rlCreated, rlLock>>

\* lines 173-175, 179-181, 191-193, 197-199: a missing bucket is created
AllowInsert(t) ==
    /\ rlTask[t].pc = "insert"
    /\ rlTask' = [rlTask EXCEPT ![t].pc = "bucket"]
    /\ IF rlTask[t].found
       THEN UNCHANGED <<token_buckets, leaky_buckets, global_bucket,
                        rlCreated>>
       ELSE /\ rlCreated' = [rlCreated EXCEPT ![rlTask[t].key] = @ + 1]
            /\ IF ~rlConfig.per_client
               THEN /\ global_bucket' = Some(BucketNew(clock))
                    /\ UNCHANGED <<token_buckets, leaky_buckets>>
               ELSE IF rlConfig.algorithm = "TokenBucket"
               THEN /\ token_buckets' = MapPut(token_buckets, rlTask[t].key,
                                               BucketNew(clock))
                    /\ UNCHANGED <<leaky_buckets, global_bucket>>
               ELSE /\ leaky_buckets' = MapPut(leaky_buckets, rlTask[t].key,
                                               BucketNew(clock))
                    /\ UNCHANGED <<token_buckets, global_bucket>>
    /\ UNCHANGED <<clock, cacheVars, cbVars, rtVars, rlConfig, rlCalls,
                   rlLast, rlAdmits, rlLock>>

\* lines 176, 182-186, 194, 200-204: bucket.allow(); the guard is dropped
\* and the result returned
AllowBucket(t) ==
    /\ rlTask[t].pc = "bucket"
    /\ LET k == rlTask[t].key
           r == BucketAllow(Unwrap(BucketOf(k)), clock)
       IN /\ IF ~rlConfig.per_client
             THEN /\ global_bucket' = Some(r.bucket)
                  /\ UNCHANGED <<token_buckets, leaky_buckets>>
             ELSE IF rlConfig.algorithm = "TokenBucket"
             THEN /\ token_buckets' = MapPut(token_buckets, k, r.bucket)
                  /\ UNCHANGED <<leaky_buckets, global_bucket>>
             ELSE /\ leaky_buckets' = MapPut(leaky_buckets, k, r.bucket)
                  /\ UNCHANGED <<token_buckets, global_bucket>>
          /\ rlLast' = [cid |-> rlTask[t].cid, key |-> k, ok |-> r.ok]
          /\ rlCalls' = [rlCalls EXCEPT ![k] = @ + 1]
          /\ rlAdmits' = IF r.ok
                         THEN [rlAdmits EXCEPT ![k] = Append(@, clock)]
                         ELSE rlAdmits
    /\ rlLock' = 0
    /\ rlTask' = [rlTask EXCEPT ![t] = RlIdle]
    /\ UNCHANGED <<clock, cacheVars, cbVars, rtVars, rlConfig, rlCreated>>

\* RateLimiter::with_config(config), lines 155-162
InitLimiter(n, configs) ==
    /\ rlConfig \in configs
    /\ rlCreated = [k \in BucketKeys |-> 0]
    /\ rlLock = 0
    /\ rlTask = [t \in 1..n |-> RlIdle]
    /\ token_buckets = EmptyMap
    /\ leaky_buckets = EmptyMap
    /\ global_bucket = None
    /\ rlCalls = [k \in BucketKeys |-> 0]
    /\ rlLast = [cid |-> None, key |-> "global", ok |-> FALSE]
    /\ rlAdmits = [k \in BucketKeys |-> <<>>]

\* RateLimiterConfig::default(), lines 38-48, the rate in RateScale-ths
DefaultLimiterConfig ==
    [algorithm |-> "TokenBucket", max |-> 100, rate |-> 10 * RateScale,
     per_client |-> FALSE]

\* the configurations explored
LimiterConfigs ==
    [algorithm : {"TokenBucket", "LeakyBucket"},
     max : 0..MaxBucket,
     rate : 0..MaxRate,
     per_client : BOOLEAN]

(***************************************************************************)
(* RetryMechanism.  Durations are whole milliseconds; the multiplier is a  *)
(* whole number; the jitter fraction is a pair <<numerator, denominator>>. *)
(* One call of retry or retry_with_cancel is followed from its start to    *)
(* its return.  The operation and the cancel predicate are the caller's:   *)
(* every invocation may return Ok or any error, every evaluation of the    *)
(* predicate either boolean.                                               *)
(***************************************************************************)
Errors == {"e1", "e2"}

\* the events recorded in rtLog
\* (a sleep with the delay slept and the jitter drawn for it)
EvCancel(b) == [ev |-> "cancel", b |-> b, e |-> "-", d |-> 0, j |-> 0]
EvInvoke == [ev |-> "invoke", b |-> FALSE, e |-> "-", d |-> 0, j |-> 0]
EvOk == [ev |-> "ok", b |-> FALSE, e |-> "-", d |-> 0, j |-> 0]
EvErr(e) == [ev |-> "err", b |-> FALSE, e |-> e, d |-> 0, j |-> 0]
EvSleep(d, j) == [ev |-> "sleep", b |-> FALSE, e |-> "-", d |-> d, j |-> j]

\* the result of a call: Ok(value), Err(AllAttemptsFailed(errors)) or
\* Err(Cancelled)
RetryResult(kind, errors) == [kind |-> kind, errors |-> errors]
NoResult == RetryResult("none", <<>>)

\* the locals of a call, lines 97-99 and 150-152
RetryLocals(fn, initial_delay) ==
    [pc |-> "idle",        \* position in the call
     fn |-> fn,            \* "retry" or "retry_with_cancel"
     attempts |-> 0,       \* attempts
     errors |-> <<>>,      \* errors
     delay |-> initial_delay,
     result |-> NoResult]

\* f64::powi for a whole base and exponent
RECURSIVE Pow(_, _)
Pow(b, n) == IF n <= 0 THEN 1 ELSE b * Pow(b, n - 1)

\* a variant of the comparison (not the program's)
GaveUpEarly(attempts) == attempts + 1 >= rtConfig.max_attempts

\* attempts >= self.config.max_attempts, lines 110 and 168
GaveUp(attempts) == attempts >= rtConfig.max_attempts

\* a variant: no evaluation of cancel before the sleep (not the program's)
AfterFailureNoCheck(fn) == "backoff"

\* where a failed attempt that is not the last goes on: retry_with_cancel
\* evaluates cancel again (line 173), retry computes the delay (line 115)
AfterFailure(fn) ==
    IF fn = "retry_with_cancel" THEN "cancel_presleep" ELSE "backoff"

\* a variant: the result of the evaluation is not looked at (not the
\* program's)
CancelledNever(b) == FALSE

\* a variant: every evaluation cancels (not the program's)
CancelledAlways(b) == TRUE

\* if cancel().await, lines 156 and 173
Cancelled(b) == b

\* lines 115-119 and 178-182: the delay after the backoff computation
BackoffDelay(delay, attempts) ==
    IF rtConfig.exponential /\ attempts > 1
    THEN Min(rtConfig.initial_delay * Pow(rtConfig.multiplier, attempts - 1),
             rtConfig.max_delay)
    ELSE delay

\* lines 122-124 and 185-187: (delay.as_millis() as f64 * jitter) as u64,
\* 0 when jitter is not positive
JitterRange(delay) ==
    IF rtConfig.jitter[1] > 0
    THEN (delay * rtConfig.jitter[1]) \div rtConfig.jitter[2]
    ELSE 0

\* a task calls retry(f) or retry_with_cancel(f, cancel), lines 97-99 and
\* 150-152
RetryStart(fn) ==
    /\ rt.pc = "idle"
    /\ rt.result = NoResult
    /\ rt' = [RetryLocals(fn, rtConfig.initial_delay) EXCEPT
                !.pc = IF fn = "retry_with_cancel" THEN "cancel_top"
                       ELSE "invoke"]
    /\ UNCHANGED <<clock, cacheVars, cbVars, rlVars, rtConfig, rtLog,
                   rtPrev>>

\* a variant: only the last error is returned (not the program's)
RetryReturnLastError(kind, errors) ==
    [rt EXCEPT !.pc = "idle",
               !.result = RetryResult(kind,
                              IF errors = <<>> THEN <<>>
                              ELSE <<errors[Len(errors)]>>)]

\* the call returns
RetryReturn(kind, errors) ==
    [rt EXCEPT !.pc = "idle", !.result = RetryResult(kind, errors)]

\* retry_with_cancel, lines 156-158: cancel is evaluated at the top of the
\* loop
CancelTop ==
    /\ rt.pc = "cancel_top"
    /\ \E b \in BOOLEAN :
        /\ rtLog' = Append(rtLog, EvCancel(b))
        /\ rt' = IF Cancelled(b) THEN RetryReturn("Cancelled", <<>>)
                 ELSE [rt EXCEPT !.pc = "invoke"]
    /\ UNCHANGED <<clock, cacheVars, cbVars, rlVars, rtConfig,
                   rtPrev>>

\* lines 102-104 and 160-162: attempts += 1; f() is called and awaited
RetryInvoke ==
    /\ rt.pc = "invoke"
    /\ rt' = [rt EXCEPT !.pc = "in_flight", !.attempts = @ + 1]
    /\ rtLog' = Append(rtLog, EvInvoke)
    /\ UNCHANGED <<clock, cacheVars, cbVars, rlVars, rtConfig,
                   rtPrev>>

\* lines 105 and 163: the operation returned Ok
OpOk ==
    /\ rt.pc = "in_flight"
    /\ rt' = RetryReturn("Ok", <<>>)
    /\ rtLog' = Append(rtLog, EvOk)
    /\ UNCHANGED <<clock, cacheVars, cbVars, rlVars, rtConfig,
                   rtPrev>>

\* lines 106-112 and 164-170: the operation returned Err(e)
OpErr(e) ==
    /\ rt.pc = "in_flight"
    /\ LET errors == Append(rt.errors, e) IN
       rt' = IF GaveUp(rt.attempts)
             THEN RetryReturn("AllAttemptsFailed", errors)
             ELSE [rt EXCEPT !.errors = errors, !.pc = AfterFailure(rt.fn)]
    /\ rtLog' = Append(rtLog, EvErr(e))
    /\ UNCHANGED <<clock, cacheVars, cbVars, rlVars, rtConfig,
                   rtPrev>>

\* retry_with_cancel, lines 173-175: cancel is evaluated before the sleep
CancelPresleep ==
    /\ rt.pc = "cancel_presleep"
    /\ \E b \in BOOLEAN :
        /\ rtLog' = Append(rtLog, EvCancel(b))
        /\ rt' = IF Cancelled(b) THEN RetryReturn("Cancelled", <<>>)
                 ELSE [rt EXCEPT !.pc = "backoff"]
    /\ UNCHANGED <<clock, cacheVars, cbVars, rlVars, rtConfig,
                   rtPrev>>

\* lines 115-131 and 178-194: the backoff, the jitter drawn from
\* 0..=jitter_range and added to delay, sleep(delay) is called
Backoff ==
    /\ rt.pc = "backoff"
    /\ LET base == BackoffDelay(rt.delay, rt.attempts) IN
       \E jitter \in 0..JitterRange(base) :
           /\ rt' = [rt EXCEPT !.pc = "sleeping", !.delay = base + jitter]
           /\ rtLog' = Append(rtLog, EvSleep(base + jitter, jitter))
    /\ UNCHANGED <<clock, cacheVars, cbVars, rlVars, rtConfig,
                   rtPrev>>

\* lines 131 and 194: the sleep is over, the loop starts again
Wake ==
    /\ rt.pc = "sleeping"
    /\ rt' = [rt EXCEPT !.pc = IF rt.fn = "retry_with_cancel"
                               THEN "cancel_top" ELSE "invoke"]
    /\ UNCHANGED <<clock, cacheVars, cbVars, rlVars, rtConfig, rtLog,
                   rtPrev>>

\* the call before the first
NoPrev == [fn |-> "none", log |-> <<>>, result |-> NoResult]

\* the call has returned; the same mechanism is called once more, either
\* function, lines 97-99 and 150-152
RetryAgain(fn) ==
    /\ rt.pc = "idle"
    /\ rt.result # NoResult
    /\ rtPrev = NoPrev
    /\ rtPrev' = [fn |-> rt.fn, log |-> rtLog, result |-> rt.result]
    /\ rt' = [RetryLocals(fn, rtConfig.initial_delay) EXCEPT
                !.pc = IF fn = "retry_with_cancel" THEN "cancel_top"
                       ELSE "invoke"]
    /\ rtLog' = <<>>
    /\ UNCHANGED <<clock, cacheVars, cbVars, rlVars, rtConfig>>

\* RetryMechanism::with_config(config), lines 86-88; no call made yet
InitRetry(configs) ==
    /\ rtConfig \in configs
    /\ rt = RetryLocals("none", 0)
    /\ rtLog = <<>>
    /\ rtPrev = NoPrev

\* RetryConfig::default(), lines 29-38
DefaultRetryConfig ==
    [max_attempts |-> 3, initial_delay |-> 100, max_delay |-> 10000,
     multiplier |-> 2, jitter |-> <<1, 10>>, exponential |-> TRUE]

\* the configurations explored
RetryConfigs ==
    [max_attempts : 0..MaxAttempts,
     initial_delay : 1..MaxInitialDelay,
     max_delay : 1..MaxDelayCap,
     multiplier : 1..MaxMultiplier,
     jitter : {<<n, JitterDen>> : n \in 0..JitterDen},
     exponential : BOOLEAN]

(***************************************************************************)
(* Specifications of the cache.                                            *)
(***************************************************************************)
\* Single flight: the tasks call get_or_compute on an empty cache with the
\* default capacity, probabilistic expiration off; no ttl elapses (the
\* clock stands still and every ttl is positive).
InitFlight ==
    /\ clock = 0
    /\ InitCache(NumTasks, {DefaultMaxEntries}, {FALSE})
    /\ InitBreaker(0, {DefaultBreakerConfig})
    /\ InitLimiter(0, {DefaultLimiterConfig})
    /\ InitRetry({DefaultRetryConfig})

\* the steps of one task
FlightStep(p) ==
    \/ \E k \in Keys : StartGoc(p, k)
    \/ GetBody(p)
    \/ GetStore(p)
    \/ GocLookup(p)
    \/ GocRecv(p)
    \/ GocRegister(p)
    \/ GocCompute(p, {1})
    \/ InsertBody(p)
    \/ GocSend(p)
    \/ GocDereg(p)
    \/ GocReturn(p)

NextFlight ==
    \/ \E p \in Tasks, k \in Keys : StartGoc(p, k)
    \/ \E p \in Tasks : GetBody(p)
    \/ \E p \in Tasks : GetStore(p)
    \/ \E p \in Tasks : GocLookup(p)
    \/ \E p \in Tasks : GocRecv(p)
    \/ \E p \in Tasks : GocRegister(p)
    \/ \E p \in Tasks : GocCompute(p, {1})
    \/ \E p \in Tasks : InsertBody(p)
    \/ \E p \in Tasks : GocSend(p)
    \/ \E p \in Tasks : GocDereg(p)
    \/ \E p \in Tasks : GocReturn(p)

\* every task that can take a step eventually takes one: the runtime
\* schedules every spawned task, and compute returns
SpecFlight ==
    /\ InitFlight
    /\ [][NextFlight]_vars
    /\ \A p \in 1..NumTasks : WF_vars(FlightStep(p))

\* One caller: a task calls any operations one after another, time passes,
\* any configuration.  Alone, the task never finds a sender registered, so
\* it never awaits a receiver.
InitGeneral ==
    /\ clock = 0
    /\ InitCache(1, 0..2, BOOLEAN)
    /\ InitBreaker(0, {DefaultBreakerConfig})
    /\ InitLimiter(0, {DefaultLimiterConfig})
    /\ InitRetry({DefaultRetryConfig})

NextCache ==
    \/ Tick
    \/ \E p \in Tasks, k \in Keys : StartGet(p, k)
    \/ \E p \in Tasks, k \in Keys, v \in Values, d \in 0..MaxTtl :
            StartInsert(p, k, v, d)
    \/ \E p \in Tasks, k \in Keys : StartRemove(p, k)
    \/ \E p \in Tasks : StartClear(p)
    \/ \E p \in Tasks : StartClean(p)
    \/ \E p \in Tasks, k \in Keys : StartGoc(p, k)
    \/ \E p \in Tasks : GetBody(p)
    \/ \E p \in Tasks : GetStore(p)
    \/ \E p \in Tasks : InsertBody(p)
    \/ \E p \in Tasks : InsertStore(p)
    \/ \E p \in Tasks : RemoveBody(p)
    \/ \E p \in Tasks : ClearBody(p)
    \/ \E p \in Tasks : CleanBody(p)
    \/ \E p \in Tasks : GocLookup(p)
    \/ \E p \in Tasks : GocRegister(p)
    \/ \E p \in Tasks : GocCompute(p, 0..MaxTtl)
    \/ \E p \in Tasks : GocSend(p)
    \/ \E p \in Tasks : GocDereg(p)
    \/ \E p \in Tasks : GocReturn(p)

SpecCache == InitGeneral /\ [][NextCache]_vars

\* Concurrent callers of get and insert: the tasks' calls interleave at
\* every step, time passes, any configuration.
InitStats ==
    /\ clock = 0
    /\ InitCache(NumTasks, 0..2, BOOLEAN)
    /\ InitBreaker(0, {DefaultBreakerConfig})
    /\ InitLimiter(0, {DefaultLimiterConfig})
    /\ InitRetry({DefaultRetryConfig})

NextStats ==
    \/ Tick
    \/ \E p \in Tasks, k \in Keys : StartGet(p, k)
    \/ \E p \in Tasks, k \in Keys, v \in Values, d \in 0..MaxTtl :
            StartInsert(p, k, v, d)
    \/ \E p \in Tasks : GetBody(p)
    \/ \E p \in Tasks : GetStore(p)
    \/ \E p \in Tasks : InsertBody(p)
    \/ \E p \in Tasks : InsertStore(p)

SpecStats == InitStats /\ [][NextStats]_vars

(***************************************************************************)
(* Properties of the cache.                                                *)
(***************************************************************************)
\* task p's get_or_compute call returns in this step
GocReturns(p) ==
    /\ task[p].op = "get_or_compute"
    /\ task[p].pc # "idle"
    /\ task'[p].pc = "idle"

\* the value it returns: get's (line 147), the received one (line 160) or
\* the computed one (line 188)
GocResult(p) ==
    IF task[p].pc = "get_store" THEN Unwrap(task[p].ret)
    ELSE IF task[p].pc = "recv" THEN Unwrap(Unwrap(rx[p]).buf)
    ELSE Unwrap(task[p].val)

\* C1: single flight. Among get_or_compute calls that overlap on a key,
\* with probabilistic expiration off and no ttl elapsing, compute is invoked
\* at most once, under every interleaving.
C1_SingleFlight == \A k \in Keys : computeCount[k] <= 1

\* C1, the failing case: two calls for one key have each invoked compute
C1_TwoComputes ==
    \E k \in Keys : \E p, q \in Tasks :
        /\ p # q
        /\ task[p].key = k /\ task[p].pc = "compute"
        /\ task[q].key = k /\ task[q].pc = "compute"

\* C2: all get_or_compute calls that overlap on a key return the identical
\* value: a call that returns returns what the calls before it returned.
C2_SameValue ==
    [][\A p \in Tasks :
         GocReturns(p) => returned[task[p].key] \subseteq {GocResult(p)}]_vars

\* C3: a get_or_compute call that found a sender registered for its key and
\* subscribed to it never invokes its own compute.
C3_SubscriberNeverComputes ==
    \A p \in Tasks : ~(task[p].subscribed /\ task[p].pc = "compute")

\* C3, the failing case: a call that subscribed after the value was
\* published and before the sender was deregistered is computing
C3_LateSubscriberComputes ==
    \E p \in Tasks : task[p].lateSub /\ task[p].pc = "compute"

\* C4: every get_or_compute call eventually returns, given that every
\* compute returns and every task keeps being scheduled.
C4_EveryCallReturns ==
    \A p \in 1..NumTasks : (task[p].pc # "idle") ~> (task[p].pc = "idle")

\* C4, its case: a call that subscribed after publication and before
\* deregistration has got past its recv and is about to return
C4_LateSubscriberReturns ==
    \E p \in Tasks : task[p].lateSub /\ task[p].pc = "return"

\* C5: with probabilistic expiration off, a get_or_compute call whose key
\* holds an entry with expiration > now gets that entry's value from get and
\* returns with it at once: compute is not invoked, the table is unchanged.
C5_HitReturnsCached ==
    [][\A p \in Tasks :
        LET t == task[p] IN
        (t.op = "get_or_compute" /\ ~probExp) =>
          /\ (/\ t.pc = "get_body" /\ task'[p].pc # "get_body"
              /\ t.key \in DOMAIN entries
              /\ entries[t.key].expiration > t.now)
             => /\ task'[p].ret = Some(entries[t.key].value)
                /\ entries' = entries
          /\ (t.pc = "get_store" /\ task'[p].pc # "get_store" /\ IsSome(t.ret))
             => /\ task'[p].pc = "idle"
                /\ entries' = entries
                /\ computeCount' = computeCount]_vars

\* C5, its case: get_or_compute's get has hit, probabilistic expiration off
C5_HitHappens ==
    \E p \in Tasks :
        /\ task[p].op = "get_or_compute" /\ task[p].pc = "get_store"
        /\ IsSome(task[p].ret) /\ ~probExp

\* C6: with probabilistic expiration off: insert(k, v, ttl) stores v with
\* expiration now + ttl; a get(k) whose now is before the expiration of the
\* entry under k returns the entry's value and leaves the table alone; a
\* get(k) whose now has reached it returns absent and k is out of the table.
C6_TtlRespected ==
    [][\A p \in Tasks :
        LET t == task[p] IN
          /\ (/\ t.op = "insert"
              /\ t.pc \in {"insert_body", "insert_store"}
              /\ task'[p].pc = "idle")
             => /\ t.key \in DOMAIN entries'
                /\ entries'[t.key].value = Unwrap(t.val)
                /\ entries'[t.key].expiration = t.now + t.ttl
          /\ (/\ t.op = "get" /\ ~probExp
              /\ t.pc = "get_body" /\ task'[p].pc # "get_body"
              /\ t.key \in DOMAIN entries)
             => IF t.now < entries[t.key].expiration
                THEN /\ task'[p].ret = Some(entries[t.key].value)
                     /\ entries' = entries
                ELSE /\ task'[p].ret = None
                     /\ t.key \notin DOMAIN entries'
          /\ (t.op = "get" /\ t.pc = "get_store" /\ task'[p].pc # "get_store")
             => /\ task'[p].pc = "idle"
                /\ entries' = entries]_vars

\* C6, its case: a get found its key's entry expired and removed it
C6_ExpiredRemoved ==
    \E p \in Tasks :
        LET t == task[p] IN
        /\ t.op = "get" /\ t.pc = "get_store" /\ ~probExp
        /\ IsSome(t.found) /\ Unwrap(t.found).expiration <= t.now
        /\ Unwrap(t.found).created < t.now
        /\ t.ret = None /\ t.key \notin DOMAIN entries

\* C7: an insert into a table holding exactly maxEntries entries removes
\* exactly one entry, one of smallest created, increments evictions by 1 and
\* leaves exactly maxEntries entries.
C7_EvictsOneKeepsFull ==
    [][\A p \in Tasks :
        LET t == task[p] IN
          /\ (/\ t.pc = "insert_body" /\ task'[p].pc # "insert_body"
              /\ Size(entries) = maxEntries)
             => /\ task'[p].pc = "insert_store"
                /\ \E k \in DOMAIN entries :
                    /\ \A j \in DOMAIN entries :
                            entries[k].created <= entries[j].created
                    /\ entries' = MapRemove(entries, k)
          /\ (/\ t.pc = "insert_store" /\ task'[p].pc # "insert_store"
              /\ Size(entries) + 1 = maxEntries)
             => /\ FieldEvictions(stats') = FieldEvictions(stats) + 1
                /\ Size(entries') = maxEntries]_vars

\* C7, the failing case: the table held maxEntries >= 2 entries, an insert
\* of a key already present has evicted another key and is about to
\* overwrite its own, leaving maxEntries - 1 entries
C7_UpdateShrinks ==
    \E p \in Tasks :
        /\ task[p].pc = "insert_store"
        /\ maxEntries >= 2
        /\ Size(entries) + 1 = maxEntries
        /\ task[p].key \in DOMAIN entries

\* C8: the table never holds more than maxEntries entries.
C8_SizeBounded == Size(entries) <= maxEntries

\* C9: the statistics are exact under concurrent get and insert calls:
\* hits is the number of completed get calls that returned a value, misses
\* the number that returned absent, evictions the number of evictions insert
\* performed; each get adds 1 to exactly one of them.
C9_StatsExact ==
    /\ FieldHits(stats) = getsHit
    /\ FieldMisses(stats) = getsMiss
    /\ FieldEvictions(stats) = evictsDone

\* C9, its case: a get holds the lock between its load and its store of
\* the statistics word while an evicting insert of another task waits
C9_Contended ==
    \E p, q \in Tasks :
        /\ p # q
        /\ task[p].pc = "get_store"
        /\ task[q].pc = "insert_body"
        /\ AtCapacity(entries) /\ DOMAIN entries # {}

(***************************************************************************)
(* Specification of the circuit breaker: one caller, whose operations      *)
(* follow one another; time passes; any configuration.                     *)
(***************************************************************************)
InitBreakerSeq ==
    /\ clock = 0
    /\ InitCache(0, {DefaultMaxEntries}, {TRUE})
    /\ InitBreaker(1, BreakerConfigs)
    /\ InitLimiter(0, {DefaultLimiterConfig})
    /\ InitRetry({DefaultRetryConfig})

NextBreaker ==
    \/ Tick
    \/ \E c \in BreakerTasks : CallStart(c)
    \/ \E c \in BreakerTasks : CallState(c)
    \/ \E c \in BreakerTasks : OnSuccess(c)
    \/ \E c \in BreakerTasks : OnErrorAdd(c)
    \/ \E c \in BreakerTasks : OnErrorLock(c)
    \/ \E c \in BreakerTasks : CheckTimeoutState(c)
    \/ \E c \in BreakerTasks : CheckTimeoutLast(c)
    \/ \E c \in BreakerTasks : CheckTimeoutElapsed(c)
    \/ \E c \in BreakerTasks : CheckTimeoutLock(c)
    \/ \E c \in BreakerTasks : ForceOpen(c)
    \/ \E c \in BreakerTasks : ForceClose(c)

SpecBreakerSeq == InitBreakerSeq /\ [][NextBreaker]_vars

(***************************************************************************)
(* Properties of the circuit breaker.                                      *)
(***************************************************************************)
\* C10: in Closed, a failing call that is not yet the failure_threshold-th
\* failing call in a row leaves the state Closed and the one that is moves
\* it to Open; a call made while the state is Open returns OpenCircuit
\* without invoking the operation and leaves the state Open.
C10_OpensAtThreshold ==
    [][\A c \in BreakerTasks :
          /\ (/\ cbTask[c].pc = "on_error" /\ cbTask'[c].pc = "idle"
              /\ cbState = "Closed")
             => /\ cbTask'[c].result = "Inner"
                /\ cbState' = IF streak + 1 < cbConfig.failure_threshold
                              THEN "Closed" ELSE "Open"
          /\ (/\ cbTask[c].pc = "call_state" /\ cbTask'[c].pc # "call_state"
              /\ cbState = "Open")
             => /\ cbTask'[c] = BreakerIdle("OpenCircuit")
                /\ invoked' = invoked
                /\ cbState' = "Open"]_vars

\* C10, its case: with a threshold of 2, three operations have been made:
\* two failing calls and a call that returned OpenCircuit
C10_RejectedAfterOpening ==
    /\ cbConfig.failure_threshold = 2
    /\ cbCalls = 3
    /\ streak = 2
    /\ invoked = 2
    /\ cbState = "Open"
    /\ \E c \in BreakerTasks : cbTask[c].result = "OpenCircuit"

(***************************************************************************)
(* Specification of the circuit breaker used by concurrent tasks: the      *)
(* steps of their operations interleave; time passes; any configuration.   *)
(***************************************************************************)
InitBreakerConc ==
    /\ clock = 0
    /\ InitCache(0, {DefaultMaxEntries}, {TRUE})
    /\ InitBreaker(NumTasks, BreakerConfigs)
    /\ InitLimiter(0, {DefaultLimiterConfig})
    /\ InitRetry({DefaultRetryConfig})

SpecBreaker == InitBreakerConc /\ [][NextBreaker]_vars

\* C11: a call that observes state Open at its admission check returns
\* OpenCircuit, does not invoke the operation, and leaves state,
\* failure_count, success_count and last_failure as they are.
C11_OpenRejects ==
    [][\A c \in BreakerTasks :
          (/\ cbTask[c].pc = "call_state" /\ cbTask'[c].pc # "call_state"
           /\ cbState = "Open")
          => /\ cbTask'[c].pc = "idle"
             /\ cbTask'[c].result = "OpenCircuit"
             /\ invoked' = invoked
             /\ cbState' = cbState
             /\ failure_count' = failure_count
             /\ success_count' = success_count
             /\ last_failure' = last_failure]_vars

\* C11, its case: a call was rejected while another task's call, admitted
\* before the circuit opened, is still running
C11_RejectedWhileRunning ==
    \E c, d \in BreakerTasks :
        /\ c # d
        /\ cbState = "Open"
        /\ cbTask[c].pc = "idle" /\ cbTask[c].result = "OpenCircuit"
        /\ cbTask[d].pc = "running"

\* the breaker's state and counters are left as they are by this step
BreakerFieldsKept ==
    /\ cbState' = cbState
    /\ failure_count' = failure_count
    /\ success_count' = success_count
    /\ last_failure' = last_failure

\* C12: for one caller, check_timeout goes past its first read only in
\* Open, past its second only if a last failure is recorded, and takes the
\* lock exactly when the time elapsed since last_failure is at least
\* timeout; up to there it changes neither state nor counters; under the
\* lock it moves Open to HalfOpen; nothing else makes the state HalfOpen.
C12_CheckTimeout ==
    [][/\ \A c \in BreakerTasks :
          LET t == cbTask[c] IN
          /\ (t.pc = "idle" /\ cbTask'[c].pc = "ct_last")
             => cbState = "Open" /\ BreakerFieldsKept
          /\ (t.pc = "ct_last" /\ cbTask'[c].pc # "ct_last")
             => /\ BreakerFieldsKept
                /\ cbTask'[c].pc = IF IsSome(last_failure)
                                   THEN "ct_elapsed" ELSE "idle"
          /\ (t.pc = "ct_elapsed" /\ cbTask'[c].pc # "ct_elapsed")
             => /\ BreakerFieldsKept
                /\ cbTask'[c].pc =
                     IF clock - Unwrap(last_failure) >= cbConfig.timeout
                     THEN "ct_lock" ELSE "idle"
          /\ (t.pc = "ct_lock" /\ cbTask'[c].pc # "ct_lock")
             => /\ cbState = "Open" /\ cbState' = "HalfOpen"
                /\ clock - Unwrap(last_failure) >= cbConfig.timeout
                /\ failure_count' = failure_count
                /\ last_failure' = last_failure
       /\ (cbState # "HalfOpen" /\ cbState' = "HalfOpen")
          => \E c \in BreakerTasks : cbTask[c].pc = "ct_lock"]_vars

\* C12, its case: the circuit was forced open and a check_timeout made
\* once the timeout had elapsed has moved it to HalfOpen
C12_ReopenedAfterTimeout ==
    /\ cbState = "HalfOpen"
    /\ cbCalls = 2
    /\ invoked = 0
    /\ clock - Unwrap(last_failure) >= cbConfig.timeout

\* C13: in HalfOpen a successful call moves the breaker to Closed exactly
\* when it is the success_threshold-th successful call since the state
\* became HalfOpen, and leaves it HalfOpen otherwise; successes of an
\* earlier HalfOpen period are not among those counted.
C13_ClosesAtSuccessThreshold ==
    [][\A c \in BreakerTasks :
          (/\ cbTask[c].pc = "running" /\ cbTask'[c].result = "Ok"
           /\ cbTask'[c].pc = "idle"
           /\ cbState = "HalfOpen")
          => cbState' = IF halfOpenOks + 1 >= cbConfig.success_threshold
                        THEN "Closed" ELSE "HalfOpen"]_vars

\* C13, its case: with a threshold of 2 the circuit was forced open, moved
\* to HalfOpen by check_timeout, and closed by the second of two successful
\* calls (four operations; last_failure is still recorded, so it was not
\* force_close that closed it)
C13_ClosedBySecondSuccess ==
    /\ cbConfig.success_threshold = 2
    /\ cbState = "Closed"
    /\ IsSome(last_failure)
    /\ cbCalls = 4
    /\ invoked = 2
    /\ \E c \in BreakerTasks : cbTask[c].result = "Ok"

\* C14: in HalfOpen a single failing call moves the breaker to Open, sets
\* success_count to 0 and records the present time as last_failure; and
\* whenever Open becomes HalfOpen, at least timeout has elapsed since the
\* recorded last_failure.
C14_HalfOpenFailureReopens ==
    [][/\ \A c \in BreakerTasks :
          (/\ cbTask[c].pc = "on_error" /\ cbTask'[c].pc = "idle"
           /\ cbState = "HalfOpen")
          => /\ cbTask'[c].result = "Inner"
             /\ cbState' = "Open"
             /\ success_count' = 0
             /\ last_failure' = Some(clock)
       /\ (cbState = "Open" /\ cbState' = "HalfOpen")
          => /\ IsSome(last_failure)
             /\ clock >= Unwrap(last_failure) + cbConfig.timeout]_vars

\* C14, its case: in HalfOpen, after a success that was counted, a call
\* has failed and its on_error is about to take the lock
C14_FailureInHalfOpen ==
    \E c \in BreakerTasks :
        /\ cbState = "HalfOpen"
        /\ success_count = 1
        /\ cbTask[c].pc = "on_error"

\* C15: while the state is Open no step of a call changes it, a call
\* admitted before the circuit opened and completing now included; a step
\* that takes the state out of Open is check_timeout's locked step (to
\* HalfOpen) or force_close (to Closed, counters and last_failure cleared).
C15_OpenIsStable ==
    [][cbState = "Open" =>
        /\ \A c \in BreakerTasks :
              (/\ cbTask[c].pc \in {"call_state", "running", "on_error"}
               /\ cbTask'[c] # cbTask[c])
              => cbState' = "Open"
        /\ cbState' # "Open" =>
              \/ /\ cbState' = "HalfOpen"
                 /\ \E c \in BreakerTasks :
                        cbTask[c].pc = "ct_lock" /\ cbTask'[c].pc = "idle"
              \/ /\ cbState' = "Closed"
                 /\ cbCalls' = cbCalls + 1
                 /\ cbTask' = cbTask
                 /\ failure_count' = 0 /\ success_count' = 0
                 /\ last_failure' = None]_vars

\* C15, its case: one task's failing call has opened the circuit while
\* another task's call, admitted before, has failed and is completing
C15_CompletingWhileOpen ==
    \E c, d \in BreakerTasks :
        /\ c # d
        /\ cbState = "Open"
        /\ cbTask[c].pc = "on_error"
        /\ cbTask[d].pc = "idle" /\ cbTask[d].result = "Inner"
        /\ cbCalls = 2

\* C16: for one caller, in Closed: failure_count is the number of failing
\* calls since the last successful one (and below failure_threshold); a
\* successful call sets it to 0 and leaves the state Closed; a failing call
\* adds 1 to it and opens the circuit, recording the present time as
\* last_failure, exactly when that makes it reach failure_threshold.
C16_ConsecutiveFailuresOpen ==
    [][\A c \in BreakerTasks :
        cbState = "Closed" =>
          /\ cbTask[c].pc = "idle"
             => /\ failure_count = streak
                /\ cbConfig.failure_threshold >= 1
                      => failure_count < cbConfig.failure_threshold
          /\ (cbTask[c].pc = "running" /\ cbTask'[c].pc = "idle")
             => /\ cbTask'[c].result = "Ok"
                /\ failure_count' = 0
                /\ cbState' = "Closed"
          /\ (cbTask[c].pc = "running" /\ cbTask'[c].pc = "on_error")
             => failure_count' = failure_count + 1
          /\ (cbTask[c].pc = "on_error" /\ cbTask'[c].pc = "idle")
             => IF failure_count >= cbConfig.failure_threshold
                THEN cbState' = "Open" /\ last_failure' = Some(clock)
                ELSE cbState' = "Closed" /\ last_failure' = last_failure]_vars

\* C16, its case: with a threshold of 2, four calls were invoked; the
\* first two left the circuit Closed, the last two failed in a row and the
\* second of them opened it
C16_OpenedBySecondInARow ==
    /\ cbConfig.failure_threshold = 2
    /\ cbCalls = 4
    /\ invoked = 4
    /\ streak = 2
    /\ failure_count = 2
    /\ cbState = "Open"
    /\ IsSome(last_failure)

\* C17: failure_count and success_count are both 0 right after every
\* transition of the state into Closed or into Open.
C17_CountersResetOnTransition ==
    [][(cbState' # cbState /\ cbState' \in {"Closed", "Open"})
        => failure_count' = 0 /\ success_count' = 0]_vars

\* C17, the failing case: the first operation was a failing call that
\* opened the circuit, and failure_count is not 0
C17_OpenWithFailuresCounted ==
    /\ cbCalls = 1
    /\ invoked = 1
    /\ cbState = "Open"
    /\ failure_count >= 1

(***************************************************************************)
(* Specification of the rate limiter: allow calls with any client ids,     *)
(* time passes; any configuration.                                         *)
(***************************************************************************)
InitLimiterAny ==
    /\ clock = 0
    /\ InitCache(0, {DefaultMaxEntries}, {TRUE})
    /\ InitBreaker(0, {DefaultBreakerConfig})
    /\ InitLimiter(0, LimiterConfigs)
    /\ InitRetry({DefaultRetryConfig})

NextLimiter ==
    \/ Tick
    \/ \E cid \in ClientIds : Allow(cid)

SpecLimiter == InitLimiterAny /\ [][NextLimiter]_vars

(***************************************************************************)
(* Properties of the rate limiter.                                         *)
(***************************************************************************)
\* C18: token bucket with max_tokens = N and tokens_per_second = 0: the
\* allow call that is the i-th on its bucket is admitted exactly if i <= N,
\* whatever time has passed.
C18_TokenBucketAdmitsN ==
    [][(/\ rlCalls' # rlCalls
        /\ rlConfig.algorithm = "TokenBucket"
        /\ rlConfig.rate = 0)
       => rlLast'.ok = (rlCalls[rlLast'.key] + 1 <= rlConfig.max)]_vars

\* C18, its case: N = 2, no refill; time has passed and the third call on
\* a bucket was rejected
C18_ThirdRejected ==
    /\ rlConfig.algorithm = "TokenBucket"
    /\ rlConfig.rate = 0 /\ rlConfig.max = 2
    /\ clock >= 1
    /\ rlCalls[rlLast.key] = 3
    /\ ~rlLast.ok

\* C19: leaky bucket with capacity = N and leak_rate = 0: the allow call
\* that is the i-th on its bucket is admitted exactly if i <= N, whatever
\* time has passed.
C19_LeakyBucketAdmitsN ==
    [][(/\ rlCalls' # rlCalls
        /\ rlConfig.algorithm = "LeakyBucket"
        /\ rlConfig.rate = 0)
       => rlLast'.ok = (rlCalls[rlLast'.key] + 1 <= rlConfig.max)]_vars

\* C19, its case: N = 2, no leak; time has passed and the third call on a
\* bucket was rejected
C19_ThirdRejected ==
    /\ rlConfig.algorithm = "LeakyBucket"
    /\ rlConfig.rate = 0 /\ rlConfig.max = 2
    /\ clock >= 1
    /\ rlCalls[rlLast.key] = 3
    /\ ~rlLast.ok

\* C20: in per-client mode an allow call with client id k1 leaves the
\* bucket of every other key as it is: not created, not changed.
C20_OtherBucketsUntouched ==
    [][(rlCalls' # rlCalls /\ rlConfig.per_client)
       => \A j \in BucketKeys :
            j # (IF rlLast'.cid = <<>> THEN "global" ELSE rlLast'.cid[1])
            => /\ rlCalls'[j] = rlCalls[j]
               /\ (j \in DOMAIN token_buckets') = (j \in DOMAIN token_buckets)
               /\ (j \in DOMAIN leaky_buckets') = (j \in DOMAIN leaky_buckets)
               /\ j \in DOMAIN token_buckets
                    => token_buckets'[j] = token_buckets[j]
               /\ j \in DOMAIN leaky_buckets
                    => leaky_buckets'[j] = leaky_buckets[j]]_vars

\* C20, its case: per client, two tokens each, no refill: client a has
\* exhausted its bucket (its third call was rejected); the first call of
\* client b was then admitted and b has one token left
C20_OtherKeyKeepsQuota ==
    /\ rlConfig.per_client
    /\ rlConfig.algorithm = "TokenBucket"
    /\ rlConfig.rate = 0 /\ rlConfig.max = 2
    /\ rlCalls["a"] = 3
    /\ rlCalls["b"] = 1
    /\ rlLast = [cid |-> <<"b">>, key |-> "b", ok |-> TRUE]
    /\ token_buckets["a"].tokens = 0
    /\ token_buckets["b"].tokens = RateScale

(***************************************************************************)
(* Properties of the circuit breaker with concurrent callers.              *)
(***************************************************************************)
\* C27: whenever the breaker moves from Open to HalfOpen, at least timeout
\* has elapsed since the last_failure stored at that moment.
C27_HalfOpenAfterTimeout ==
    [][(cbState = "Open" /\ cbState' = "HalfOpen")
        => /\ IsSome(last_failure')
           /\ clock' - Unwrap(last_failure') >= cbConfig.timeout]_vars

\* C27, its case: the breaker is HalfOpen although less than timeout has
\* elapsed since the stored last_failure
C27_HalfOpenTooEarly ==
    /\ cbState = "HalfOpen"
    /\ IsSome(last_failure)
    /\ clock - Unwrap(last_failure) < cbConfig.timeout
    /\ \A c \in BreakerTasks : cbTask[c].pc = "idle"

\* C28: whenever on_error moves the breaker from Closed to Open, the
\* failure_count stored at that moment is at least failure_threshold.
C28_OpensOnStoredCount ==
    [][(/\ cbState = "Closed" /\ cbState' = "Open"
        /\ \E c \in BreakerTasks :
              cbTask[c].pc = "on_error" /\ cbTask'[c].pc = "idle")
        => failure_count' >= cbConfig.failure_threshold]_vars

\* C28, its case: three calls were made and invoked, nothing else; the
\* breaker is Open and the stored failure_count is 0, below the threshold 2
C28_OpenWithCountReset ==
    /\ cbConfig.failure_threshold = 2
    /\ cbCalls = 3
    /\ invoked = 3
    /\ cbState = "Open"
    /\ failure_count = 0
    /\ \A c \in BreakerTasks : cbTask[c].pc = "idle"

(***************************************************************************)
(* Publication order and locking in get_or_compute.                        *)
(***************************************************************************)
\* Single flight with one task more: a call can subscribe while two other
\* calls are computing.
InitFlightThree ==
    /\ clock = 0
    /\ InitCache(NumTasks + 1, {DefaultMaxEntries}, {FALSE})
    /\ InitBreaker(0, {DefaultBreakerConfig})
    /\ InitLimiter(0, {DefaultLimiterConfig})
    /\ InitRetry({DefaultRetryConfig})

SpecFlightThree == InitFlightThree /\ [][NextFlight]_vars

\* C29: when a subscriber receives the published value v (no ttl elapses,
\* nothing is removed or evicted), the entry table holds v for the key.
C29_ReceivedIsStored ==
    [][\A p \in Tasks :
          (GocReturns(p) /\ task[p].pc = "recv")
          => /\ task[p].key \in DOMAIN entries
             /\ entries[task[p].key].value = GocResult(p)]_vars

\* C29, the failing case: a subscriber is about to receive a value while
\* the entry table holds another value for the key
C29_ReceivesOtherThanStored ==
    \E p \in Tasks :
        /\ task[p].pc = "recv"
        /\ IsSome(Unwrap(rx[p]).buf)
        /\ task[p].key \in DOMAIN entries
        /\ entries[task[p].key].value # Unwrap(Unwrap(rx[p]).buf)

\* C30: no task holds the entries lock and the load_channels lock at once,
\* and a task whose compute runs or that waits on its receiver holds
\* neither; whoever holds the entries lock is inside get or insert, between
\* two statements, and suspended nowhere.
C30_LocksNotNested ==
    \A p \in Tasks :
        /\ ~(entriesLock = p /\ channelsLock = p)
        /\ task[p].pc \in {"compute", "recv"}
              => entriesLock # p /\ channelsLock # p
        /\ entriesLock = p => task[p].pc \in {"get_store", "insert_store"}

\* C30, its case: a task is inside get, holding the entries lock, while
\* another task's compute is running
C30_GetDuringCompute ==
    \E p, q \in Tasks :
        /\ task[p].pc = "compute"
        /\ task[q].pc = "get_store"
        /\ entriesLock = q

(***************************************************************************)
(* Specification of the retry mechanism: one call of retry or of           *)
(* retry_with_cancel under any configuration.                              *)
(***************************************************************************)
InitRetryAny ==
    /\ clock = 0
    /\ InitCache(0, {DefaultMaxEntries}, {TRUE})
    /\ InitBreaker(0, {DefaultBreakerConfig})
    /\ InitLimiter(0, {DefaultLimiterConfig})
    /\ InitRetry(RetryConfigs)

NextRetry ==
    \/ \E fn \in {"retry", "retry_with_cancel"} : RetryStart(fn)
    \/ CancelTop
    \/ RetryInvoke
    \/ OpOk
    \/ \E e \in Errors : OpErr(e)
    \/ CancelPresleep
    \/ Backoff
    \/ Wake

SpecRetry == InitRetryAny /\ [][NextRetry]_vars

\* the history of the call
LogCount(ev) == Cardinality({i \in DOMAIN rtLog : rtLog[i].ev = ev})
Invocations == LogCount("invoke")
Failures == LogCount("err")
\* the sleeps performed, in order
Sleeps ==
    SelectSeq(rtLog, LAMBDA x : x.ev = "sleep")
\* the errors the operation returned, in order
OpErrors ==
    SelectSeq(rtLog, LAMBDA x : x.ev = "err")
\* the call has returned
RetryDone == rt.pc = "idle" /\ rt.result # NoResult
\* the evaluations of cancel, in order
Cancels ==
    SelectSeq(rtLog, LAMBDA x : x.ev = "cancel")
\* the last thing the call did
LastEvent == rtLog[Len(rtLog)]

(***************************************************************************)
(* Properties of the retry mechanism.                                      *)
(***************************************************************************)
\* C21: retry, the operation fails k < max_attempts times and then
\* succeeds: retry returns that success at once, after k + 1 invocations
\* and k sleeps; a call of retry that has returned after fewer than
\* max_attempts failures has returned a success.
C21_SuccessAfterKFailures ==
    rt.fn = "retry" =>
        /\ (LogCount("ok") > 0 /\ Failures < rtConfig.max_attempts)
              => /\ RetryDone
                 /\ rt.result.kind = "Ok"
                 /\ LastEvent.ev = "ok"
                 /\ Invocations = Failures + 1
                 /\ Len(Sleeps) = Failures
        /\ (RetryDone /\ Failures < rtConfig.max_attempts)
              => rt.result.kind = "Ok"

\* C21, its case: max_attempts = 3, two failures, then a success
C21_ThirdAttemptSucceeds ==
    /\ rt.fn = "retry"
    /\ rtConfig.max_attempts = 3
    /\ RetryDone
    /\ rt.result.kind = "Ok"
    /\ Failures = 2
    /\ Invocations = 3
    /\ Len(Sleeps) = 2

\* C22: retry, the operation always fails: retry invokes it exactly
\* max_attempts times and returns AllAttemptsFailed with the max_attempts
\* errors in the order they occurred, the last failure being the last thing
\* that happened.
C22_AllAttemptsFailed ==
    (rt.fn = "retry" /\ LogCount("ok") = 0) =>
        /\ Invocations <= rtConfig.max_attempts
        /\ RetryDone
              => /\ rt.result.kind = "AllAttemptsFailed"
                 /\ Invocations = rtConfig.max_attempts
                 /\ Len(rt.result.errors) = rtConfig.max_attempts
                 /\ rt.result.errors = [i \in DOMAIN OpErrors |-> OpErrors[i].e]
                 /\ LastEvent.ev = "err"

\* C22, the failing case: max_attempts = 0, yet the operation was invoked
\* and AllAttemptsFailed carries one error
C22_InvokedWithNoAttempts ==
    /\ rt.fn = "retry"
    /\ rtConfig.max_attempts = 0
    /\ RetryDone
    /\ rt.result.kind = "AllAttemptsFailed"
    /\ Invocations = 1
    /\ Len(rt.result.errors) = 1

\* C23: retry_with_cancel: an evaluation of cancel that returned true is
\* the last thing the call did and its result is Cancelled; true at the
\* first evaluation: no invocation; false at the first and true at the
\* second: exactly one invocation.
C23_CancelStops ==
    rt.fn = "retry_with_cancel" =>
        /\ \A i \in DOMAIN rtLog :
              (rtLog[i].ev = "cancel" /\ rtLog[i].b)
              => /\ i = Len(rtLog)
                 /\ RetryDone
                 /\ rt.result.kind = "Cancelled"
        /\ (Len(Cancels) >= 1 /\ Cancels[1].b) => Invocations = 0
        /\ (Len(Cancels) >= 2 /\ ~Cancels[1].b /\ Cancels[2].b)
              => Invocations = 1

\* C23, its case: cancel was false, then true: one invocation, Cancelled
C23_CancelledAtSecondEvaluation ==
    /\ rt.fn = "retry_with_cancel"
    /\ Len(Cancels) = 2
    /\ ~Cancels[1].b /\ Cancels[2].b
    /\ Invocations = 1
    /\ rt.result.kind = "Cancelled"

\* C24: retry_with_cancel evaluates cancel before each invocation and after
\* a failed attempt that is not the last, before the sleep, and nowhere
\* else; true before the sleep: Cancelled, no sleep; between an invocation
\* and its outcome nothing happens.
C24_CancelPoints ==
    rt.fn = "retry_with_cancel" =>
        /\ \A i \in DOMAIN rtLog :
            /\ rtLog[i].ev = "invoke"
                  => /\ i > 1 /\ rtLog[i - 1] = EvCancel(FALSE)
                     /\ i < Len(rtLog) => rtLog[i + 1].ev \in {"ok", "err"}
            /\ rtLog[i].ev = "sleep"
                  => /\ i > 2
                     /\ rtLog[i - 1] = EvCancel(FALSE)
                     /\ rtLog[i - 2].ev = "err"
            /\ rtLog[i].ev = "cancel"
                  => \/ i = 1
                     \/ rtLog[i - 1].ev = "sleep"
                     \/ /\ rtLog[i - 1].ev = "err"
                        /\ Cardinality({j \in 1..(i - 1) : rtLog[j].ev = "err"})
                              < rtConfig.max_attempts
            /\ (rtLog[i].ev = "cancel" /\ rtLog[i].b)
                  => /\ i = Len(rtLog)
                     /\ RetryDone
                     /\ rt.result.kind = "Cancelled"
        /\ rt.pc = "in_flight" => LastEvent.ev = "invoke"

\* C24, its case: the second attempt failed, cancel was then true: the call
\* returned Cancelled after two invocations and the one sleep before them
C24_CancelledBeforeSecondSleep ==
    /\ rt.fn = "retry_with_cancel"
    /\ RetryDone
    /\ rt.result.kind = "Cancelled"
    /\ Invocations = 2
    /\ Failures = 2
    /\ Len(Sleeps) = 1
    /\ Len(Cancels) = 4

\* C25: exponential backoff without jitter: the n-th sleep lasts
\* min(initial_delay * multiplier^(n-1), max_delay).
C25_ExponentialDelay ==
    (rtConfig.exponential /\ rtConfig.jitter[1] = 0) =>
        \A n \in DOMAIN Sleeps :
            Sleeps[n].d = Min(rtConfig.initial_delay
                                 * Pow(rtConfig.multiplier, n - 1),
                              rtConfig.max_delay)

\* C25, the failing case: the first sleep is longer than max_delay
C25_FirstSleepExceedsMax ==
    /\ rtConfig.exponential
    /\ rtConfig.jitter[1] = 0
    /\ Len(Sleeps) >= 1
    /\ Sleeps[1].d > rtConfig.max_delay

\* the backoff delay of the n-th failed attempt: lines 115-119
BackoffOf(n) ==
    IF rtConfig.exponential /\ n > 1
    THEN Min(rtConfig.initial_delay * Pow(rtConfig.multiplier, n - 1),
             rtConfig.max_delay)
    ELSE rtConfig.initial_delay

\* C26: every sleep d satisfies b <= d <= b + b * jitter, b being the
\* backoff delay of its attempt (initial_delay when exponential is false).
C26_JitterBounded ==
    \A n \in DOMAIN Sleeps :
        /\ BackoffOf(n) <= Sleeps[n].d
        /\ Sleeps[n].d * rtConfig.jitter[2]
              <= BackoffOf(n) * (rtConfig.jitter[2] + rtConfig.jitter[1])

\* C26, the failing case: without exponential backoff the second sleep is
\* longer than initial_delay plus the largest jitter on initial_delay
C26_JitterCarriedOver ==
    /\ ~rtConfig.exponential
    /\ Len(Sleeps) >= 2
    /\ Sleeps[2].d * rtConfig.jitter[2]
          > rtConfig.initial_delay * (rtConfig.jitter[2] + rtConfig.jitter[1])

(***************************************************************************)
(* Further properties of get_or_compute, of the breaker and of             *)
(* retry_with_cancel.                                                      *)
(***************************************************************************)
\* task p's get_or_compute call is between its registration (line 170) and
\* its deregistration (line 185)
Registered(p) ==
    /\ task[p].op = "get_or_compute"
    /\ task[p].pc \in {"compute", "insert_body", "insert_store", "send",
                       "dereg"}

\* C32: load_channels holds a sender for key k only while some
\* get_or_compute call for k is between its registration and its
\* deregistration; with no get_or_compute call in progress it is empty.
C32_MarkerOnlyInFlight ==
    /\ \A k \in DOMAIN load_channels :
          \E p \in Tasks : Registered(p) /\ task[p].key = k
    /\ (\A p \in Tasks : task[p].op # "get_or_compute")
          => load_channels = EmptyMap

\* C32, its case: two calls for one key are both registered; the first to
\* finish is about to remove the marker the other one put there
C32_TwoRegistered ==
    \E p, q \in Tasks :
        /\ p # q
        /\ task[p].key = task[q].key
        /\ task[p].pc = "dereg"
        /\ task[q].pc = "compute"
        /\ load_channels[task[p].key] = q

\* C37: a call whose operation finishes while the breaker is Open leaves
\* the state Open and failure_count, success_count and last_failure as
\* they are.
C37_LateCompletionChangesNothing ==
    [][\A c \in BreakerTasks :
          (/\ cbState = "Open"
           /\ cbTask[c].pc = "running"
           /\ cbTask'[c].pc # "running")
          => /\ cbState' = "Open"
             /\ failure_count' = failure_count
             /\ success_count' = success_count
             /\ last_failure' = last_failure]_vars

\* C37, the failing case: an admitted call has failed and counted its
\* failure, and the breaker is Open through force_open by the other task
C37_FailureCountedWhileOpen ==
    \E c \in BreakerTasks :
        /\ cbTask[c].pc = "on_error"
        /\ cbState = "Open"
        /\ cbCalls = 2
        /\ invoked = 1
        /\ failure_count = 1
        /\ cbConfig.failure_threshold = 2

\* C39: retry_with_cancel, the attempt that exhausts max_attempts fails:
\* the call returns AllAttemptsFailed with every error, in order, and cancel
\* is not evaluated after that failure; Cancelled is returned only after an
\* evaluation of cancel that returned true, and carries no errors.
C39_ExhaustedBeforeCancel ==
    rt.fn = "retry_with_cancel" =>
        /\ \A i \in DOMAIN rtLog :
              (/\ rtLog[i].ev = "err"
               /\ Cardinality({j \in 1..i : rtLog[j].ev = "err"})
                     >= rtConfig.max_attempts)
              => /\ i = Len(rtLog)
                 /\ RetryDone
                 /\ rt.result.kind = "AllAttemptsFailed"
                 /\ rt.result.errors =
                       [n \in DOMAIN OpErrors |-> OpErrors[n].e]
        /\ rt.result.kind = "Cancelled"
              => /\ LastEvent = EvCancel(TRUE)
                 /\ rt.result.errors = <<>>
        /\ rt.result.kind = "AllAttemptsFailed" => LastEvent.ev = "err"

\* C39, its case: max_attempts = 2, both attempts failed with different
\* errors: AllAttemptsFailed with both, cancel evaluated three times
C39_TwoErrorsReturned ==
    /\ rt.fn = "retry_with_cancel"
    /\ rtConfig.max_attempts = 2
    /\ rt.result = RetryResult("AllAttemptsFailed", <<"e1", "e2">>)
    /\ Len(Cancels) = 3

(***************************************************************************)
(* The statistics word near the top of its fields: a cache that has        *)
(* counted for a long time and holds no entry, used by one task.           *)
(***************************************************************************)
\* the statistics words with each field at 0 or at its maximum 0xFFFFF
EdgeWords ==
    {<<h, m, e, 0>> : h \in {0, FieldMask}, m \in {0, FieldMask},
                      e \in {0, FieldMask}}

InitStatsEdge ==
    /\ clock = 0
    /\ InitCacheWith(1, 0..2, BOOLEAN, EdgeWords)
    /\ InitBreaker(0, {DefaultBreakerConfig})
    /\ InitLimiter(0, {DefaultLimiterConfig})
    /\ InitRetry({DefaultRetryConfig})

SpecStatsEdge == InitStatsEdge /\ [][NextStats]_vars

\* C40: incrementing one of hits, misses and evictions leaves the other
\* two, as stats() reports them, unchanged.
C40_FieldsIndependent ==
    [][\A p \in Tasks :
        /\ (task[p].pc = "get_store" /\ task'[p].pc # "get_store"
            /\ IsSome(task[p].ret))
              => /\ FieldMisses(stats') = FieldMisses(stats)
                 /\ FieldEvictions(stats') = FieldEvictions(stats)
        /\ (task[p].pc = "get_store" /\ task'[p].pc # "get_store"
            /\ ~IsSome(task[p].ret))
              => /\ FieldHits(stats') = FieldHits(stats)
                 /\ FieldEvictions(stats') = FieldEvictions(stats)
        /\ (task[p].pc = "insert_store" /\ task'[p].pc # "insert_store")
              => /\ FieldHits(stats') = FieldHits(stats)
                 /\ FieldMisses(stats') = FieldMisses(stats)]_vars

\* C40, the failing case: one get has completed, a hit, with hits at
\* 0xFFFFF before it: hits reads 0 and misses, 0 before, reads 1
C40_HitCountedAsMiss ==
    /\ getsHit = 1
    /\ getsMiss = 0
    /\ evictsDone = 0
    /\ FieldHits(stats) = 0
    /\ FieldMisses(stats) = 1
    /\ \A p \in Tasks : task[p].pc = "idle"

(***************************************************************************)
(* Further properties of the rate limiter.                                 *)
(***************************************************************************)
\* 0 <= tokens <= max_tokens, 0 <= requests <= capacity
BucketInRange(b) ==
    IF rlConfig.algorithm = "TokenBucket"
    THEN 0 <= b.tokens /\ b.tokens <= b.max_tokens * RateScale
    ELSE 0 <= b.requests /\ b.requests <= b.capacity

\* what a bucket has left to give: its tokens, or its free slots
BucketRoom(b) ==
    IF rlConfig.algorithm = "TokenBucket" THEN b.tokens
    ELSE b.capacity - b.requests

\* C33: after every allow call each bucket is within its range, and a
\* rejected call has taken nothing from the bucket it used: the bucket has
\* at least the tokens (at most the requests) it had before, a new bucket
\* all of them.
C33_BucketsInRange ==
    [][rlCalls' # rlCalls =>
        /\ \A k \in BucketKeys :
              IsSome(BucketOfNext(k))
                  => BucketInRange(Unwrap(BucketOfNext(k)))
        /\ ~rlLast'.ok =>
              LET k == rlLast'.key
                  after == Unwrap(BucketOfNext(k))
                  whole == IF rlConfig.algorithm = "TokenBucket"
                           THEN rlConfig.max * RateScale ELSE rlConfig.max
              IN IF IsSome(BucketOf(k))
                 THEN BucketRoom(after) >= BucketRoom(Unwrap(BucketOf(k)))
                 ELSE BucketRoom(after) = whole]_vars

\* C33, its case: a bucket of two tokens, refilled at half a token per
\* clock unit, was emptied at time 0; the call at time 1 was rejected and
\* left the half token refilled by then in the bucket
C33_RejectedKeepsRefill ==
    /\ rlConfig.algorithm = "TokenBucket"
    /\ rlConfig.max = 2 /\ rlConfig.rate = 1
    /\ clock = 1
    /\ ~rlLast.ok
    /\ rlCalls[rlLast.key] = 3
    /\ IsSome(BucketOf(rlLast.key))
    /\ Unwrap(BucketOf(rlLast.key)).tokens = 1

\* C35: token bucket: of the calls on one bucket, those admitted within
\* any span of time T number at most max_tokens + T * tokens_per_second.
C35_TokenRateBound ==
    rlConfig.algorithm = "TokenBucket" =>
        \A k \in BucketKeys :
            \A i, j \in DOMAIN rlAdmits[k] :
                i <= j =>
                    (j - i + 1) * RateScale
                        <= rlConfig.max * RateScale
                           + (rlAdmits[k][j] - rlAdmits[k][i]) * rlConfig.rate

\* C35, its case: one token, refilled at one token per clock unit: calls
\* were admitted at times 0, 1 and 2, three within a span of 2
C35_BoundReached ==
    /\ rlConfig.algorithm = "TokenBucket"
    /\ rlConfig.max = 1
    /\ rlConfig.rate = RateScale
    /\ \E k \in BucketKeys : rlAdmits[k] = <<0, 1, 2>>

(***************************************************************************)
(* The rate limiter called from several threads.                           *)
(***************************************************************************)
InitLimiterThreads ==
    /\ clock = 0
    /\ InitCache(0, {DefaultMaxEntries}, {TRUE})
    /\ InitBreaker(0, {DefaultBreakerConfig})
    /\ InitLimiter(RlThreads, LimiterConfigs)
    /\ InitRetry({DefaultRetryConfig})

NextLimiterThreads ==
    \/ Tick
    \/ \E t \in 1..RlThreads, cid \in ClientIds : AllowCall(t, cid)
    \/ \E t \in 1..RlThreads : AllowLock(t)
    \/ \E t \in 1..RlThreads : AllowLookup(t)
    \/ \E t \in 1..RlThreads : AllowInsert(t)
    \/ \E t \in 1..RlThreads : AllowBucket(t)

SpecLimiterThreads == InitLimiterThreads /\ [][NextLimiterThreads]_vars

\* the threads between taking the mutex and dropping the guard
RlInside == {t \in DOMAIN rlTask : rlTask[t].pc \in {"lookup", "insert", "bucket"}}

\* C34: allow calls of several threads on one limiter are serialized: at
\* most one thread is inside the critical section; with zero refill (or
\* leak) the calls admitted on a bucket of N tokens (or slots) are the first
\* N that complete, so exactly N of M > N; and one bucket is created per
\* key, however many threads use the new key at once.
C34_AllowSerialized ==
    /\ Cardinality(RlInside) <= 1
    /\ \A k \in BucketKeys :
          /\ rlCreated[k] = (IF IsSome(BucketOf(k)) THEN 1 ELSE 0)
          /\ rlConfig.rate = 0 =>
                Len(rlAdmits[k]) = Min(rlCalls[k], rlConfig.max)

\* C34, its case: three threads called allow(None) at once on a new limiter
\* of two tokens (or slots) and zero refill: two calls have returned,
\* admitted; the third thread holds the mutex and is about to be rejected
C34_ThirdOfThreeThreads ==
    /\ rlConfig.rate = 0 /\ rlConfig.max = 2
    /\ rlCalls["global"] = 2
    /\ Len(rlAdmits["global"]) = 2
    /\ rlCreated["global"] = 1
    /\ \E t \in 1..RlThreads :
          /\ rlTask[t].pc = "bucket"
          /\ rlTask[t].key = "global"
          /\ rlLock = t
          /\ ~BucketAllow(Unwrap(BucketOf("global")), clock).ok

(***************************************************************************)
(* The rate limiter called for ever.  Time is kept relative: the clock     *)
(* stays where it is and the passing of one unit moves the last_update of  *)
(* every bucket one unit into the past.  A bucket idle for MaxAge units    *)
(* or more has, at any positive rate, leaked every request (or refilled    *)
(* every token), so greater ages need not be told apart.                   *)
(***************************************************************************)
MaxAge == MaxBucket * RateScale

Aged(b) ==
    [b EXCEPT !.last_update = IF @ - 1 < clock - MaxAge THEN clock - MaxAge
                              ELSE @ - 1]

\* one unit of time passes
Elapse ==
    /\ token_buckets' = [k \in DOMAIN token_buckets |-> Aged(token_buckets[k])]
    /\ leaky_buckets' = [k \in DOMAIN leaky_buckets |-> Aged(leaky_buckets[k])]
    /\ global_bucket' = IF IsSome(global_bucket)
                        THEN Some(Aged(Unwrap(global_bucket))) ELSE None
    /\ UNCHANGED <<clock, cacheVars, cbVars, rtVars, rlConfig, rlCalls,
                   rlLast, rlAdmits, rlCreated, rlLock, rlTask>>

\* a caller calls allow(client_id), any number of times
AllowAgain(cid) ==
    /\ AllowUpdate(cid)
    /\ UNCHANGED <<clock, cacheVars, cbVars, rtVars, rlConfig, rlCalls,
                   rlAdmits, rlCreated, rlLock, rlTask>>

NextLimiterForever ==
    \/ Elapse
    \/ \E cid \in ClientIds : AllowAgain(cid)

\* time advances without bound and every client keeps calling
SpecLimiterForever ==
    /\ InitLimiterAny
    /\ [][NextLimiterForever]_vars
    /\ WF_vars(Elapse)
    /\ \A cid \in ClientIds : WF_vars(AllowAgain(cid))

\* the bucket of key k is a leaky bucket of positive capacity and leak
\* rate, and it is full
LeakyFull(k) ==
    /\ rlConfig.algorithm = "LeakyBucket"
    /\ rlConfig.rate > 0
    /\ rlConfig.max >= 1
    /\ IsSome(BucketOf(k))
    /\ Unwrap(BucketOf(k)).requests = Unwrap(BucketOf(k)).capacity

\* C36: leaky bucket recovery: once a call on a full leaky bucket of
\* positive leak rate has been rejected, and the callers keep calling while
\* time advances without bound, a later call on that bucket is admitted.
C36_FullLeakyBucketRecovers ==
    \A k \in BucketKeys :
        (LeakyFull(k) /\ rlLast.key = k /\ ~rlLast.ok)
            ~> (rlLast.key = k /\ rlLast.ok)

\* C36, its case: a full bucket of one request that leaks half a request
\* per unit of time has just rejected a call
C36_RejectedWhileFull ==
    /\ LeakyFull("global")
    /\ rlConfig.max = 1 /\ rlConfig.rate = 1
    /\ rlLast.key = "global" /\ ~rlLast.ok
    /\ Unwrap(BucketOf("global")).last_update = clock

(***************************************************************************)
(* Two calls on one RetryMechanism, one after the other: retry and         *)
(* retry_with_cancel under the same configuration, each with its own       *)
(* operation outcomes, jitter draws and cancel evaluations.                *)
(***************************************************************************)
NextRetryTwice ==
    \/ \E fn \in {"retry", "retry_with_cancel"} : RetryStart(fn)
    \/ \E fn \in {"retry", "retry_with_cancel"} : RetryAgain(fn)
    \/ CancelTop
    \/ RetryInvoke
    \/ OpOk
    \/ \E e \in Errors : OpErr(e)
    \/ CancelPresleep
    \/ Backoff
    \/ Wake

SpecRetryTwice == InitRetryAny /\ [][NextRetryTwice]_vars

\* what a call did to its operation and to the clock: its log without the
\* evaluations of cancel
Visible(log) == SelectSeq(log, LAMBDA x : x.ev # "cancel")

\* no evaluation of cancel in the log returned true
NeverCancelled(log) == \A i \in DOMAIN log : ~log[i].b

\* the kind of step an event is: an invocation, its outcome, a sleep
StepKind(x) == IF x.ev \in {"ok", "err"} THEN "outcome" ELSE x.ev

\* C38: one call of retry and one of retry_with_cancel whose cancel
\* predicate returned false every time: as long as the operation's outcomes
\* and the jitter draws have been the same, the two calls do the same next
\* thing (invoke, or sleep the same delay), and when all of them were the
\* same the calls have made the same invocations and sleeps and returned
\* the same result.
C38_CancelNeverIsRetry ==
    ({rtPrev.fn, rt.fn} = {"retry", "retry_with_cancel"}
        /\ NeverCancelled(rtPrev.log) /\ NeverCancelled(rtLog))
    => LET A == Visible(rtPrev.log)
           B == Visible(rtLog)
       IN /\ \A i \in DOMAIN A \cap DOMAIN B :
                (\A m \in 1..(i - 1) : A[m] = B[m])
                    => /\ StepKind(A[i]) = StepKind(B[i])
                       /\ (A[i].ev = "sleep" /\ A[i].j = B[i].j)
                              => A[i].d = B[i].d
          /\ (\A i \in DOMAIN A \cap DOMAIN B : A[i] = B[i])
                    => /\ Len(B) <= Len(A)
                       /\ Len(B) = Len(A)
                              => (rt.pc = "idle" /\ rt.result = rtPrev.result)

\* C38, its case: retry_with_cancel, its predicate false four times, failed
\* twice with a sleep after each failure and then succeeded; retry with the
\* same outcomes and jitter draws has done the same and returned Ok as well
C38_SameRunTwice ==
    /\ rtPrev.fn = "retry_with_cancel"
    /\ rt.fn = "retry"
    /\ NeverCancelled(rtPrev.log)
    /\ Len(SelectSeq(rtPrev.log, LAMBDA x : x.ev = "cancel")) >= 4
    /\ Visible(rtPrev.log) = rtLog
    /\ Len(Sleeps) = 2
    /\ Sleeps[2].j > 0
    /\ rt.pc = "idle"
    /\ rt.result.kind = "Ok"
    /\ rtPrev.result = rt.result

(***************************************************************************)
(* A compute callback that calls back into the cache.  The callback of the *)
(* call of task Outer may itself call get_or_compute, on any key, before   *)
(* it returns its value; that inner call is followed as frame Inner, which *)
(* runs inside the callback: the callback returns only after it.  A third  *)
(* task calls get_or_compute on its own.                                   *)
(***************************************************************************)
Outer == 1
Inner == 2

InitNested ==
    /\ clock = 0
    /\ InitCache(NumTasks + 1, {DefaultMaxEntries}, {FALSE})
    /\ InitBreaker(0, {DefaultBreakerConfig})
    /\ InitLimiter(0, {DefaultLimiterConfig})
    /\ InitRetry({DefaultRetryConfig})

\* line 174, compute().await: the callback calls get_or_compute(k, ..) and
\* awaits it
NestedCall(k) ==
    /\ task[Outer].pc = "compute"
    /\ task[Inner].pc = "idle"
    /\ calls < MaxCalls
    /\ calls' = calls + 1
    /\ task' = [task EXCEPT
                  ![Outer].pc = "nested",
                  ![Inner] = [IdleTask EXCEPT !.pc = "get_body",
                                              !.op = "get_or_compute",
                                              !.key = k, !.now = clock]]
    /\ UNCHANGED <<nonCacheVars, clock, channelsLock, maxEntries, probExp,
                   entries, entriesLock, stats, load_channels, rx, sender,
                   computeCount, returned, getsHit, getsMiss, evictsDone>>

\* the inner call has returned to the callback
NestedReturn ==
    /\ task[Outer].pc = "nested"
    /\ task[Inner].pc = "idle"
    /\ task' = [task EXCEPT ![Outer].pc = "compute"]
    /\ UNCHANGED <<nonCacheVars, clock, channelsLock, maxEntries, probExp,
                   entries, entriesLock, stats, load_channels, rx, sender,
                   calls, computeCount, returned, getsHit, getsMiss,
                   evictsDone>>

\* the steps of a call once started
NestedBody(p) ==
    \/ GetBody(p)
    \/ GetStore(p)
    \/ GocLookup(p)
    \/ GocRecv(p)
    \/ GocRegister(p)
    \/ GocCompute(p, {1})
    \/ InsertBody(p)
    \/ GocSend(p)
    \/ GocDereg(p)
    \/ GocReturn(p)

\* the steps of the outer call with its callback
OuterStep ==
    \/ NestedBody(Outer)
    \/ \E k \in Keys : NestedCall(k)
    \/ NestedReturn

NextNested ==
    \/ \E p \in Tasks \ {Inner}, k \in Keys : StartGoc(p, k)
    \/ \E k \in Keys : NestedCall(k)
    \/ NestedReturn
    \/ \E p \in Tasks : GetBody(p)
    \/ \E p \in Tasks : GetStore(p)
    \/ \E p \in Tasks : GocLookup(p)
    \/ \E p \in Tasks : GocRecv(p)
    \/ \E p \in Tasks : GocRegister(p)
    \/ \E p \in Tasks : GocCompute(p, {1})
    \/ \E p \in Tasks : InsertBody(p)
    \/ \E p \in Tasks : GocSend(p)
    \/ \E p \in Tasks : GocDereg(p)
    \/ \E p \in Tasks : GocReturn(p)

\* every call that can take a step eventually takes one, and a callback
\* whose inner call has returned returns
SpecNested ==
    /\ InitNested
    /\ [][NextNested]_vars
    /\ WF_vars(OuterStep)
    /\ \A p \in 2..(NumTasks + 1) : WF_vars(NestedBody(p))

\* C31: a compute callback that calls get_or_compute on the same cache
\* terminates and the outer call returns, whatever key the inner call is
\* for.
C31_NestedCallReturns ==
    (task[Outer].pc = "nested") ~> (task[Outer].pc = "idle")

\* the same for inner calls on another key than the one being computed
NestedOtherKeyReturns ==
    [](task[Outer].pc = "nested" => task[Inner].key # task[Outer].key)
        => ((task[Outer].pc = "nested") ~> (task[Outer].pc = "idle"))

\* C31, its case: the inner call is for the key being computed: it found
\* the outer call's sender in the table, subscribed to it and awaits a
\* value the outer call sends only after the callback has returned
C31_InnerAwaitsOuter ==
    /\ task[Outer].pc = "nested"
    /\ task[Inner].pc = "recv"
    /\ task[Inner].key = task[Outer].key
    /\ IsSome(rx[Inner])
    /\ Unwrap(rx[Inner]).src = Outer
    /\ ~IsSome(Unwrap(rx[Inner]).buf)
    /\ ~Unwrap(rx[Inner]).closed
    /\ sender[Outer]

====
